---- MODULE Spec2Model ----
(***************************************************************************)
(* Cycle / interrupt / audio scheduler of the CoCo 3 emulation core        *)
(* (src/coco3.cpp): CPUCycle and the configuration calls that program the  *)
(* interrupt timer and the audio sample period.                            *)
(*                                                                         *)
(* Numbers.  The code keeps time in double-precision nanoseconds.  The     *)
(* model keeps time exactly, as an integer count of ticks, Tick ticks to   *)
(* the nanosecond, so the code's "NanosThisLine >= 1" reads                *)
(* "NanosThisLine >= Tick".  The clock constants are scaled down so that   *)
(* a raster line is TicksPerLine ticks and a colour-burst period is        *)
(* TicksPerColorBurst ticks; every quantity the code derives from them is  *)
(* derived here by the same expression.  Cycle counts (CycleDrift,         *)
(* CyclesThisLine) are kept as numerators over the denominator CycleUnit   *)
(* (= NanosPerLine), which makes                                           *)
(*    CycleDrift + nanos * CyclesPerLine * OverClock / NanosPerLine        *)
(* an exact integer expression.                                            *)
(*                                                                         *)
(* Further specifications share the state:                                 *)
(*   FrameSpec  RenderFrame / HLINE / SetLinesperScreen (src/coco3.cpp)    *)
(*   TapeSpec   the audio-event handlers and SetSndOutMode (src/coco3.cpp) *)
(*   GimeSpec, PumpSpec, MixSpec, RouteSpec, RampSpec, LostSurfaceSpec     *)
(*              scenarios of the frame pump and the mixer (src/coco3.cpp)  *)
(*   EmuSpec, ProcessSpec                                                  *)
(*              the CocoEmulator facade and the cartridge manager          *)
(*              (src/emulation/src/cocoemu.cpp, cartridge.cpp)             *)
(*   ThreadSpec, ThreadFairSpec                                            *)
(*              dream::EmulationThread (src/core/src/emulation.cpp)        *)
(***************************************************************************)
EXTENDS Integers, Sequences, FiniteSets, TLC

\* ------------------------------------------------------------------ bounds
Tick               == 2    \* ticks per nanosecond
TicksPerLine       == 48   \* ticks in one raster line
TicksPerColorBurst == 4    \* ticks in one colour-burst period
TicksPerHSYNC      == 4    \* ticks in one horizontal sync pulse
MaxCalls           == 2    \* CPUCycle calls explored in one behaviour
MaxConfig          == 3    \* configuration calls explored in one behaviour
MaxFrames          == 1    \* RenderFrame calls explored in one behaviour
MaxModeSets        == 1    \* SetLinesperScreen calls explored in one behaviour
MaxEmuCalls        == 4    \* CocoEmulator facade calls explored in one behaviour
MaxRouteSets       == 2    \* SetSndOutMode calls explored in one behaviour
MaxInstances       == 2    \* CocoEmulator instances created in one behaviour
PageBytes          == 2    \* bytes in 8KB of cartridge ROM
MaxSpin            == 1    \* samples followed in a loop whose sample period is zero
MaxPumpFrames      == 2    \* RenderFrame calls explored when frames follow one another
MaxLostFrames      == 250  \* RenderFrame calls explored while the surface is lost

\* --------------------------------------------------------- clock constants
TARGETFRAMERATE == 60
LINESPERSCREEN  == 262
\* ticks per second (the code's NANOSECOND is nanoseconds per second)
NANOSECOND      == TicksPerLine * TARGETFRAMERATE * LINESPERSCREEN
\* colour-burst periods per second
COLORBURST      == NANOSECOND \div TicksPerColorBurst
\* (COLORBURST/4)*(TARGETFRAMERATE/FRAMESPERSECORD); the second factor,
\* 60/59.923, is 1 at the resolution of the model
CyclesPerSecord == COLORBURST \div 4
LinesPerSecond  == TARGETFRAMERATE * LINESPERSCREEN
NanosPerLine    == NANOSECOND \div LinesPerSecond
CyclesPerLine   == CyclesPerSecord \div LinesPerSecond
\* width of the horizontal sync pulse, in ticks
HSYNCWidthInNanos == TicksPerHSYNC
\* one whole CPU cycle, in the unit CycleDrift is kept in
CycleUnit       == NanosPerLine

\* ------------------------------------------------------------------ inputs
\* the two budgets HLINE passes to CPUCycle, and a whole line
Budgets     == {NanosPerLine - HSYNCWidthInNanos, HSYNCWidthInNanos, NanosPerLine}
\* arguments of SetInteruptTimer: register values and values with bits above
\* the 12-bit register set
TimerValues == {0, 5, 4095, 4101}
\* arguments of SetAudioRate (samples per second)
AudioRates  == {0, LinesPerSecond, 150912}
\* arguments of SetClockSpeed
ClockSpeeds == {1, 2}

VARIABLES
    pc,                  \* "idle": no CPUCycle call active; "loop": inside its while loop
    NanosThisLine, NanosToInterrupt, NanosToSoundSample, SoundInterupt,
    CycleDrift, IntEnable, SndEnable, OverClock, SoundRate,
    MasterTickCounter, UnxlatedTickCounter, OldMaster, TimerClockRate,
    events,              \* what the last loop iteration did, in order
    lastOp,              \* the last call made: <<name, argument, halted>>
    nCalls,              \* CPUCycle calls made so far
    nConfig,             \* configuration calls made so far
    meter,               \* running totals kept for the timing properties
    \* line geometry and frame renderer (coco3.cpp)
    LinesperScreen, TopBoarder, BottomBoarder, TopOffScreen, BottomOffScreen,
    BlinkPhase,
    rf,                  \* where the RenderFrame call in progress stands:
                         \* [phase, LineCounter, hline]
    frame,               \* what the current (or last) RenderFrame call has done
    video,               \* last SetLinesperScreen argument, calls counted
    \* audio / cassette mixer (coco3.cpp)
    SoundOutputMode, LastMode,
    AudioEventFn,        \* the handler the AudioEvent pointer names
    CassIndex, CassBufferSize,
    CassBuffer,          \* the bytes of CassBuffer written so far, from index 0
    LastMotorState, NanosToAudioSample, fade, fadeTo,
    AudioIndex,          \* samples written to AudioBuffer since it was last emptied
    padding,             \* AudioBuffer[AudioIndex - 1] (last), the sample UpdateAudio
                         \* last appended (value, <<>> before the first) and the
                         \* samples the handlers have written since then (since)
    HorzInteruptEnabled, VertInteruptEnabled, TimerInteruptEnabled,
    tape,                \* the mixer's collaborators and what was handed to them
    \* CocoEmulatorImpl (cocoemu.cpp)
    m_config, m_ready, m_lastError,
    emu,                 \* facade calls counted, last call and its result,
                         \* instances counted, calls made before this one
    \* CartridgeManager (cartridge.cpp)
    m_rom, m_name, m_bankSelect, cart_lastError,
    \* dream::EmulationThread (emulation.cpp): its atomics, its callback and
    \* mutex, where the emulation thread and the calling thread are, and what
    \* has happened since start()
    thread

timerVars == <<MasterTickCounter, UnxlatedTickCounter, OldMaster, TimerClockRate>>
audioVars == <<SoundInterupt, SndEnable, SoundRate>>
clockVars == <<NanosThisLine, NanosToInterrupt, NanosToSoundSample, CycleDrift>>
vars == <<pc, NanosThisLine, NanosToInterrupt, NanosToSoundSample, SoundInterupt,
          CycleDrift, IntEnable, SndEnable, OverClock, SoundRate,
          MasterTickCounter, UnxlatedTickCounter, OldMaster, TimerClockRate,
          events, lastOp, nCalls, nConfig, meter,
          LinesperScreen, TopBoarder, BottomBoarder, TopOffScreen, BottomOffScreen,
          BlinkPhase, rf, frame, video,
          SoundOutputMode, LastMode, AudioEventFn, CassIndex, CassBufferSize,
          CassBuffer, LastMotorState, NanosToAudioSample, fade, fadeTo, tape,
          AudioIndex, padding, HorzInteruptEnabled, VertInteruptEnabled, TimerInteruptEnabled,
          m_config, m_ready, m_lastError, emu,
          m_rom, m_name, m_bankSelect, cart_lastError, thread>>

geomVars  == <<LinesperScreen, TopBoarder, BottomBoarder, TopOffScreen, BottomOffScreen>>
frameVars == <<BlinkPhase, rf, frame, video>>
\* the mixer state SetAudioRate and MiscReset leave alone
mixerVars == <<SoundOutputMode, LastMode, AudioEventFn, CassIndex, CassBufferSize,
               CassBuffer, LastMotorState, fade, fadeTo, tape>>
gimeVars  == <<HorzInteruptEnabled, VertInteruptEnabled, TimerInteruptEnabled>>
emuVars   == <<m_config, m_ready, m_lastError, emu>>
cartVars  == <<m_rom, m_name, m_bankSelect, cart_lastError>>
\* everything but the EmulationThread object
emulatorVars == <<pc, NanosThisLine, NanosToInterrupt, NanosToSoundSample, SoundInterupt,
                  CycleDrift, IntEnable, SndEnable, OverClock, SoundRate,
                  MasterTickCounter, UnxlatedTickCounter, OldMaster, TimerClockRate,
                  events, lastOp, nCalls, nConfig, meter,
                  geomVars, frameVars, mixerVars, NanosToAudioSample, AudioIndex, padding,
                  gimeVars, emuVars, cartVars>>
\* the scheduler state and its observers
schedVars == <<pc, NanosThisLine, NanosToInterrupt, NanosToSoundSample, SoundInterupt,
               CycleDrift, IntEnable, SndEnable, OverClock, SoundRate,
               MasterTickCounter, UnxlatedTickCounter, OldMaster, TimerClockRate,
               events, lastOp, nCalls, nConfig, meter>>
\* everything outside the scheduler that CPUCycle and the timer calls leave alone
restVars  == <<geomVars, gimeVars, frameVars, mixerVars, NanosToAudioSample, AudioIndex, padding,
               emuVars, cartVars, thread>>

\* ----------------------------------------------------------------- helpers
\* low 12 bits of a non-negative integer (Timer & 0xFFF), bit by bit
RECURSIVE LowBits(_, _)
LowBits(n, bits) ==
    IF bits = 0 THEN 0
    ELSE (n % 2) + 2 * LowBits(n \div 2, bits - 1)

\* The CPU executor installed by default: executes nothing, returns 0.
CPUExecStub(cycles) == 0
CPUExec(cycles) == CPUExecStub(cycles)

\* One CPU burst of `nanos' ticks: the whole cycles handed to the executor
\* and the drift carried on.

\* a burst that forgets the fractional cycle once the executor has run
BurstDropsFraction(drift, nanos) ==
    LET CyclesThisLine == drift + nanos * CyclesPerLine * OverClock
        whole          == CyclesThisLine \div CycleUnit
    IN  IF CyclesThisLine >= CycleUnit
        THEN [exec |-> whole, drift |-> CPUExec(whole) * CycleUnit]
        ELSE [exec |-> 0, drift |-> CyclesThisLine]

\* a burst that rounds a started cycle up and hands it to the executor
BurstRoundsUp(drift, nanos) ==
    LET CyclesThisLine == drift + nanos * CyclesPerLine * OverClock
        whole          == (CyclesThisLine + CycleUnit - 1) \div CycleUnit
    IN  IF CyclesThisLine > 0
        THEN [exec  |-> whole,
              drift |-> CPUExec(whole) * CycleUnit + (CyclesThisLine - whole * CycleUnit)]
        ELSE [exec |-> 0, drift |-> CyclesThisLine]

\* the burst of cases 0, 1, 2 and of the unequal branches of case 3:
\* if (CyclesThisLine >= 1)
Burst(drift, nanos) ==
    LET CyclesThisLine == drift + nanos * CyclesPerLine * OverClock
        whole          == CyclesThisLine \div CycleUnit
    IN  IF CyclesThisLine >= CycleUnit
        THEN [exec  |-> whole,
              drift |-> CPUExec(whole) * CycleUnit + (CyclesThisLine - whole * CycleUnit)]
        ELSE [exec |-> 0, drift |-> CyclesThisLine]

\* the burst of the equal-countdown branch of case 3:
\* if (CyclesThisLine > 1)
BurstTie(drift, nanos) ==
    LET CyclesThisLine == drift + nanos * CyclesPerLine * OverClock
        whole          == CyclesThisLine \div CycleUnit
    IN  IF CyclesThisLine > CycleUnit
        THEN [exec  |-> whole,
              drift |-> CPUExec(whole) * CycleUnit + (CyclesThisLine - whole * CycleUnit)]
        ELSE [exec |-> 0, drift |-> CyclesThisLine]

BurstEvent(nanos, b) == <<"burst", nanos, b.exec, b.drift>>
TimerEvent == <<"timer", 0, 0, 0>>
AudioEvent == <<"audio", 0, 0, 0>>

\* the audio-due test without the enable flag
StateSwitchIgnoresSndEnable ==
    (IF NanosToInterrupt <= NanosThisLine /\ IntEnable # 0 THEN 1 ELSE 0)
  + (IF NanosToSoundSample <= NanosThisLine THEN 2 ELSE 0)

\* an event due exactly at the end of the budget left for the next call
StateSwitchStrict ==
    (IF NanosToInterrupt < NanosThisLine /\ IntEnable # 0 THEN 1 ELSE 0)
  + (IF NanosToSoundSample < NanosThisLine /\ SndEnable # 0 THEN 2 ELSE 0)

\* StateSwitch as computed at the top of each loop iteration
StateSwitch ==
    (IF NanosToInterrupt <= NanosThisLine /\ IntEnable # 0 THEN 1 ELSE 0)
  + (IF NanosToSoundSample <= NanosThisLine /\ SndEnable # 0 THEN 2 ELSE 0)

\* ------------------------------------------------------------------- meter
\* meter.whole  whole cycles handed to the executor since the drift was last zeroed
\* meter.owed   sum of budget * CyclesPerLine * OverClock over the same calls
\* meter.acct   the overclock multiplier has not changed since then
\* meter.clean  since the timer countdown was last loaded: interrupts enabled,
\*              audio disabled, and the countdown was loaded with the period
\* meter.budget budget entered since then; meter.fires timer firings since then
\* meter.since  ticks of burst run since the countdown was last loaded
\* meter.gap    ticks of burst between the last firing and the load before it (-1: none)
\* meter.muted  the last SetAudioRate call had rate 0
\* meter.fresh  at the entry of the current call: interrupts enabled, audio
\*              disabled, countdown equal to the period
\* meter.callFires  timer firings in the current call
\* meter.callSince  ticks of burst run in the current call
\* meter.firstAt    ticks of burst run in the current call before its first
\*                  timer firing (-1: none yet)
RECURSIVE Track(_, _)
Track(m, evs) ==
    IF evs = <<>> THEN m
    ELSE LET e == Head(evs)
             m1 == IF e[1] = "burst"
                   THEN [m EXCEPT !.whole = @ + e[3], !.since = @ + e[2],
                                  !.callSince = @ + e[2]]
                   ELSE IF e[1] = "timer"
                   THEN [m EXCEPT !.fires = @ + 1, !.gap = m.since, !.since = 0,
                                  !.callFires = @ + 1,
                                  !.firstAt = IF @ = -1 THEN m.callSince ELSE @]
                   ELSE m
         IN  Track(m1, Tail(evs))

\* the timer part of the meter restarts whenever a configuration call returns
TimerRestart(m, clean) ==
    [m EXCEPT !.clean = clean, !.budget = 0, !.fires = 0, !.since = 0, !.gap = -1]
\* the cycle part restarts whenever CycleDrift is zeroed
CycleRestart(m) == [m EXCEPT !.whole = 0, !.owed = 0, !.acct = TRUE]

\* -------------------------------------------------------------------- Init
\* sample rate of the host audio stream
AUDIO_RATE == 44100
\* EmulatorConfig as default-constructed
DefaultConfig == [audioSampleRate |-> AUDIO_RATE]

\* the static initialisers of coco3.cpp and cartridge.h, and a CocoEmulatorImpl
\* constructed with `config'
Construct(config) ==
    /\ pc = "idle"
    /\ NanosThisLine = 0
    /\ NanosToInterrupt = 0
    /\ NanosToSoundSample = 0
    /\ SoundInterupt = 0
    /\ CycleDrift = 0
    /\ IntEnable = 0
    /\ SndEnable = 1
    /\ OverClock = 1
    /\ SoundRate = 0
    /\ MasterTickCounter = 0
    /\ UnxlatedTickCounter = 0
    /\ OldMaster = 0
    /\ TimerClockRate = 0
    /\ events = <<>>
    /\ lastOp = <<"init", 0, 0>>
    /\ nCalls = 0
    /\ nConfig = 0
    /\ meter = [whole |-> 0, owed |-> 0, acct |-> TRUE, clean |-> FALSE,
                budget |-> 0, fires |-> 0, since |-> 0, gap |-> -1,
                muted |-> FALSE, fresh |-> FALSE,
                callFires |-> 0, callSince |-> 0, firstAt |-> -1]
    /\ LinesperScreen = 0 /\ TopBoarder = 0 /\ BottomBoarder = 0
    /\ TopOffScreen = 0 /\ BottomOffScreen = 0
    /\ BlinkPhase = 1
    /\ rf = [phase |-> "idle", LineCounter |-> 0, hline |-> "start", horz |-> 0]
    /\ frame = [n |-> 0, lines |-> 0, budget |-> 0, drawn |-> 0, lock |-> -1,
                flushed |-> FALSE, done |-> FALSE, trace |-> <<>>, mode |-> -1,
                halted |-> 0, vert |-> 0, audio |-> -1, FrameSkip |-> 1, locks |-> 0]
    /\ video = [Lines |-> -1, sets |-> 0, blinks |-> 0]
    /\ SoundOutputMode = 0 /\ LastMode = 0
    /\ AudioEventFn = "AudioOut"
    /\ CassIndex = 0 /\ CassBufferSize = 0 /\ CassBuffer = <<>>
    /\ LastMotorState = 0
    /\ NanosToAudioSample = 0
    /\ AudioIndex = 0
    /\ padding = [last |-> <<0, 0>>, value |-> <<>>, since |-> 0]
    /\ HorzInteruptEnabled = 0 /\ VertInteruptEnabled = 0 /\ TimerInteruptEnabled = 0
    /\ fade = 0 /\ fadeTo = 0
    /\ tape = [written |-> <<>>, pending |-> 0, routes |-> 0, casSample |-> -1,
               latched |-> 0, mux |-> 0, dac |-> <<0, 0>>, out |-> <<0, 0>>,
               writes |-> 0, speaker |-> <<0, 0, 1>>]
    /\ m_config = config
    /\ m_ready = FALSE
    /\ m_lastError = ""
    /\ emu = [calls |-> 0, last |-> <<"create", 0>>, result |-> TRUE,
              reinit |-> FALSE, instance |-> 1, born |-> 0]
    /\ m_rom = <<>> /\ m_name = "" /\ m_bankSelect = 0 /\ cart_lastError = ""
    /\ thread = [m_running |-> FALSE, m_paused |-> FALSE, m_resetRequested |-> FALSE,
                 m_frameCallback |-> FALSE, m_callbackMutex |-> "free",
                 joinable |-> FALSE, at |-> "off", again |-> FALSE,
                 caller |-> "idle", callback |-> FALSE,
                 between |-> FALSE, invoked |-> FALSE, pending |-> FALSE]

\* the scheduler is studied from the static initialisers
Init == Construct(DefaultConfig)

\* ---------------------------------------------------- audio event handlers
CAS_SILENCE == 128
\* sizeof(CassBuffer)/sizeof(*CassBuffer)
CassBufferCapacity == 8192
\* what GetCasSample() answers
CasSamples == {255}
\* what GetDACSample() answers: <<left, right>>, 16 bits each
DacSamples == {<<65535, 32768>>}

\* CassBuffer[i]; the array is zero-initialised
ReadCass(buf, i) == IF i < Len(buf) THEN buf[i + 1] ELSE 0
\* CassBuffer[i] = v
StoreCass(buf, i, v) ==
    [k \in 1..(IF i + 1 > Len(buf) THEN i + 1 ELSE Len(buf)) |->
        IF k = i + 1 THEN v ELSE IF k <= Len(buf) THEN buf[k] ELSE 0]
\* the bytes FlushCassetteBuffer(CassBuffer, &CassIndex) is handed
CassBytes(buf, n) == [k \in 1..n |-> ReadCass(buf, k - 1)]

\* what every handler leaves alone
HandlerFrame == UNCHANGED <<SoundOutputMode, LastMode, AudioEventFn, CassBufferSize,
                            LastMotorState>>

\* a speaker handler that writes the two channels as two entries
AudioOutTwoEntries ==
    /\ SoundInterupt = 0 => AudioIndex < MaxSpin
    /\ AudioIndex' = AudioIndex + 2
    /\ \E dacChannel \in DacSamples :
           padding' = [padding EXCEPT !.last = dacChannel, !.since = @ + 2]
    /\ UNCHANGED <<CassIndex, CassBuffer, fade, fadeTo, NanosToAudioSample, tape>>
    /\ HandlerFrame

\* AudioOut: AudioBuffer[AudioIndex++] = GetDACSample()
AudioOut ==
    /\ SoundInterupt = 0 => AudioIndex < MaxSpin
    /\ AudioIndex' = AudioIndex + 1
    /\ \E dacChannel \in DacSamples :
           padding' = [padding EXCEPT !.last = dacChannel, !.since = @ + 1]
    /\ UNCHANGED <<CassIndex, CassBuffer, fade, fadeTo, NanosToAudioSample, tape>>
    /\ HandlerFrame

CassOut(sample) ==
    /\ IF LastMotorState # 0 /\ CassIndex < CassBufferCapacity
       THEN /\ CassBuffer' = StoreCass(CassBuffer, CassIndex, sample)
            /\ CassIndex' = CassIndex + 1
            /\ tape' = [tape EXCEPT !.pending = @ + 1]
       ELSE UNCHANGED <<CassBuffer, CassIndex, tape>>
    /\ UNCHANGED <<fade, fadeTo, NanosToAudioSample, AudioIndex, padding>>
    /\ HandlerFrame

\* CassInByteStream reading the tape whatever the motor does
CassInByteStreamIgnoresMotor ==
    LET idx == IF CassIndex >= CassBufferSize THEN 0 ELSE CassIndex
    IN  [sample |-> ReadCass(CassBuffer, idx), index |-> idx + 1]

\* CassInByteStream: the byte returned and CassIndex afterwards.
\* (LoadCassetteBuffer leaves CassBuffer and CassBufferSize alone.)
CassInByteStream ==
    LET idx == IF CassIndex >= CassBufferSize THEN 0 ELSE CassIndex
    IN  IF LastMotorState # 0
        THEN [sample |-> ReadCass(CassBuffer, idx), index |-> idx + 1]
        ELSE [sample |-> CAS_SILENCE, index |-> idx]

\* ((uint32_t)sample << 23) | ((uint32_t)sample << 7), as <<getLeft, getRight>>
monoToStereo(sample) ==
    <<(sample * 128) % 65536, ((sample * 8388608) \div 65536) % 65536>>

\* the loop that repeats the sample into AudioBuffer until NanosToAudioSample
\* is used up: what is left of it and the number of writes
RECURSIVE Resample(_, _)
Resample(nanos, writes) ==
    IF nanos > 0
    THEN Resample(nanos - NANOSECOND \div AUDIO_RATE, writes + 1)
    ELSE [nanos |-> nanos, writes |-> writes]

\* CassIn.  `muxCassette': GetMuxState() == PIA_MUX_CASSETTE; `dacChannel':
\* what GetDACSample() answers.  The sample is kept as <<left, right>>.
CassIn(muxCassette, dacChannel) ==
    LET cas        == CassInByteStream
        casChannel == monoToStereo(cas.sample)
        FADE_TIME  == SoundRate \div 8
        stepped    == IF fade < fadeTo THEN fade + 1
                      ELSE IF fade > fadeTo THEN fade - 1 ELSE fade
        left       == (casChannel[1] * stepped + dacChannel[1] * (FADE_TIME - stepped))
                          \div FADE_TIME
        right      == (casChannel[2] * stepped + dacChannel[2] * (FADE_TIME - stepped))
                          \div FADE_TIME
        rs         == Resample(NanosToAudioSample, 0)
    IN  /\ CassIndex' = cas.index
        /\ fade' = stepped
        /\ fadeTo' = FADE_TIME * muxCassette
        /\ NanosToAudioSample' = rs.nanos + SoundInterupt
        /\ SoundInterupt = 0 => AudioIndex < MaxSpin
        /\ AudioIndex' = AudioIndex + rs.writes
        /\ padding' = IF rs.writes > 0
                       THEN [padding EXCEPT !.last = <<left, right>>,
                                            !.since = @ + rs.writes]
                       ELSE padding
        /\ tape' = [tape EXCEPT !.casSample = cas.sample, !.latched = LastMotorState,
                                !.mux = muxCassette, !.dac = dacChannel,
                                !.out = <<left, right>>, !.writes = rs.writes]
        /\ UNCHANGED CassBuffer
        /\ HandlerFrame

\* AudioEvent(): the call through the pointer
AudioEventCall ==
    CASE AudioEventFn = "AudioOut" -> AudioOut
      [] AudioEventFn = "CassOut"  -> \E sample \in CasSamples : CassOut(sample)
      [] AudioEventFn = "CassIn"   -> \E muxCassette \in {0, 1}, dacChannel \in DacSamples :
                                          CassIn(muxCassette, dacChannel)


\* ---------------------------------------------------------------- CPUCycle
\* an entry that adds the budget to the line before it looks at IsHalted()
CPUCycleEnterCountsHalted(NanosToRun, halted) ==
    /\ pc = "idle"
    /\ nCalls < MaxCalls
    /\ nCalls' = nCalls + 1
    /\ lastOp' = <<"CPUCycle", NanosToRun, halted>>
    /\ events' = <<>>
    /\ NanosThisLine' = NanosThisLine + NanosToRun
    /\ IF halted = 1
       THEN UNCHANGED <<pc, meter>>
       ELSE /\ pc' = "loop"
            /\ meter' = [meter EXCEPT !.owed = @ + NanosToRun * CyclesPerLine * OverClock,
                                      !.budget = @ + NanosToRun,
                                      !.fresh = (IntEnable = 1 /\ SndEnable = 0
                                                 /\ NanosToInterrupt = MasterTickCounter),
                                      !.callFires = 0, !.callSince = 0, !.firstAt = -1]
    /\ UNCHANGED <<NanosToInterrupt, NanosToSoundSample, CycleDrift>>
    /\ UNCHANGED <<timerVars, audioVars, IntEnable, OverClock, nConfig>>
    /\ UNCHANGED restVars

\* Entry of CPUCycle(NanosToRun).  `halted' is what Debugger.IsHalted()
\* answers for this call (1: halted).
CPUCycleEnter(NanosToRun, halted) ==
    /\ pc = "idle"
    /\ nCalls < MaxCalls
    /\ nCalls' = nCalls + 1
    /\ lastOp' = <<"CPUCycle", NanosToRun, halted>>
    /\ events' = <<>>
    /\ IF halted = 1
       THEN UNCHANGED <<pc, clockVars, meter>>
       ELSE /\ pc' = "loop"
            /\ NanosThisLine' = NanosThisLine + NanosToRun
            /\ meter' = [meter EXCEPT !.owed = @ + NanosToRun * CyclesPerLine * OverClock,
                                      !.budget = @ + NanosToRun,
                                      !.fresh = (IntEnable = 1 /\ SndEnable = 0
                                                 /\ NanosToInterrupt = MasterTickCounter),
                                      !.callFires = 0, !.callSince = 0, !.firstAt = -1]
            /\ UNCHANGED <<NanosToInterrupt, NanosToSoundSample, CycleDrift>>
    /\ UNCHANGED <<timerVars, audioVars, IntEnable, OverClock, nConfig>>
    /\ UNCHANGED restVars

\* what every loop iteration leaves alone; an audio event it fires goes to
\* the handler the AudioEvent pointer names
LoopFrame ==
    /\ pc' = pc
    /\ UNCHANGED <<timerVars, audioVars, IntEnable, OverClock, lastOp, nCalls, nConfig>>
    /\ UNCHANGED <<geomVars, gimeVars, frameVars, emuVars, cartVars, thread>>
    /\ IF \E i \in DOMAIN events' : events'[i] = AudioEvent
       THEN AudioEventCall
       ELSE UNCHANGED <<mixerVars, NanosToAudioSample, AudioIndex, padding>>

\* case 0: no event due in what is left of the line
Case0 ==
    /\ pc = "loop" /\ NanosThisLine >= Tick
    /\ StateSwitch = 0
    /\ LET b == Burst(CycleDrift, NanosThisLine)
       IN  /\ CycleDrift' = b.drift
           /\ events' = <<BurstEvent(NanosThisLine, b)>>
    /\ NanosToInterrupt' = NanosToInterrupt - NanosThisLine
    /\ NanosToSoundSample' = NanosToSoundSample - NanosThisLine
    /\ NanosThisLine' = 0
    /\ meter' = Track(meter, events')
    /\ LoopFrame

\* case 1 adding the period to the countdown instead of reloading it
Case1Accumulates ==
    /\ pc = "loop" /\ NanosThisLine >= Tick
    /\ StateSwitch = 1
    /\ NanosThisLine' = NanosThisLine - NanosToInterrupt
    /\ LET b == Burst(CycleDrift, NanosToInterrupt)
       IN  /\ CycleDrift' = b.drift
           /\ events' = <<BurstEvent(NanosToInterrupt, b), TimerEvent>>
    /\ NanosToSoundSample' = NanosToSoundSample - NanosToInterrupt
    /\ NanosToInterrupt' = NanosToInterrupt + MasterTickCounter
    /\ meter' = Track(meter, events')
    /\ LoopFrame

\* case 1 disarming the timer when it fires
Case1OneShot ==
    /\ pc = "loop" /\ NanosThisLine >= Tick
    /\ StateSwitch = 1
    /\ NanosThisLine' = NanosThisLine - NanosToInterrupt
    /\ LET b == Burst(CycleDrift, NanosToInterrupt)
       IN  /\ CycleDrift' = b.drift
           /\ events' = <<BurstEvent(NanosToInterrupt, b), TimerEvent>>
    /\ NanosToSoundSample' = NanosToSoundSample - NanosToInterrupt
    /\ NanosToInterrupt' = MasterTickCounter
    /\ meter' = Track(meter, events')
    /\ IntEnable' = 0
    /\ pc' = pc
    /\ UNCHANGED <<timerVars, audioVars, OverClock, lastOp, nCalls, nConfig>>
    /\ UNCHANGED restVars

\* case 1: only the timer interrupt is due
Case1 ==
    /\ pc = "loop" /\ NanosThisLine >= Tick
    /\ StateSwitch = 1
    /\ NanosThisLine' = NanosThisLine - NanosToInterrupt
    /\ LET b == Burst(CycleDrift, NanosToInterrupt)
       IN  /\ CycleDrift' = b.drift
           /\ events' = <<BurstEvent(NanosToInterrupt, b), TimerEvent>>
    /\ NanosToSoundSample' = NanosToSoundSample - NanosToInterrupt
    /\ NanosToInterrupt' = MasterTickCounter
    /\ meter' = Track(meter, events')
    /\ LoopFrame

\* case 2: only the audio sample is due
Case2 ==
    /\ pc = "loop" /\ NanosThisLine >= Tick
    /\ StateSwitch = 2
    /\ NanosThisLine' = NanosThisLine - NanosToSoundSample
    /\ LET b == Burst(CycleDrift, NanosToSoundSample)
       IN  /\ CycleDrift' = b.drift
           /\ events' = <<BurstEvent(NanosToSoundSample, b), AudioEvent>>
    /\ NanosToInterrupt' = NanosToInterrupt - NanosToSoundSample
    /\ NanosToSoundSample' = SoundInterupt
    /\ meter' = Track(meter, events')
    /\ LoopFrame

\* case 3, audio first, taking both countdowns off the line budget
Case3AudioFirstSubtractsBoth ==
    /\ pc = "loop" /\ NanosThisLine >= Tick
    /\ StateSwitch = 3
    /\ NanosToSoundSample < NanosToInterrupt
    /\ LET b1   == Burst(CycleDrift, NanosToSoundSample)
           toInt == NanosToInterrupt - NanosToSoundSample
           b2   == Burst(b1.drift, toInt)
       IN  /\ NanosThisLine' = (NanosThisLine - NanosToSoundSample) - NanosToInterrupt
           /\ CycleDrift' = b2.drift
           /\ events' = <<BurstEvent(NanosToSoundSample, b1), AudioEvent,
                          BurstEvent(toInt, b2), TimerEvent>>
           /\ NanosToSoundSample' = SoundInterupt - toInt
           /\ NanosToInterrupt' = MasterTickCounter
    /\ meter' = Track(meter, events')
    /\ LoopFrame

\* case 3, audio first: burst to the sample, fire it, burst on to the
\* interrupt, fire it
Case3AudioFirst ==
    /\ pc = "loop" /\ NanosThisLine >= Tick
    /\ StateSwitch = 3
    /\ NanosToSoundSample < NanosToInterrupt
    /\ LET b1   == Burst(CycleDrift, NanosToSoundSample)
           toInt == NanosToInterrupt - NanosToSoundSample
           b2   == Burst(b1.drift, toInt)
       IN  /\ NanosThisLine' = (NanosThisLine - NanosToSoundSample) - toInt
           /\ CycleDrift' = b2.drift
           /\ events' = <<BurstEvent(NanosToSoundSample, b1), AudioEvent,
                          BurstEvent(toInt, b2), TimerEvent>>
           /\ NanosToSoundSample' = SoundInterupt - toInt
           /\ NanosToInterrupt' = MasterTickCounter
    /\ meter' = Track(meter, events')
    /\ LoopFrame

\* case 3, interrupt first: burst to the interrupt, fire it, burst on to the
\* sample, fire it
Case3InterruptFirst ==
    /\ pc = "loop" /\ NanosThisLine >= Tick
    /\ StateSwitch = 3
    /\ NanosToSoundSample > NanosToInterrupt
    /\ LET b1    == Burst(CycleDrift, NanosToInterrupt)
           toSnd == NanosToSoundSample - NanosToInterrupt
           b2    == Burst(b1.drift, toSnd)
       IN  /\ NanosThisLine' = (NanosThisLine - NanosToInterrupt) - toSnd
           /\ CycleDrift' = b2.drift
           /\ events' = <<BurstEvent(NanosToInterrupt, b1), TimerEvent,
                          BurstEvent(toSnd, b2), AudioEvent>>
           /\ NanosToInterrupt' = MasterTickCounter - toSnd
           /\ NanosToSoundSample' = SoundInterupt
    /\ meter' = Track(meter, events')
    /\ LoopFrame

\* the tie served audio first
Case3SameAudioFirst ==
    /\ pc = "loop" /\ NanosThisLine >= Tick
    /\ StateSwitch = 3
    /\ NanosToSoundSample = NanosToInterrupt
    /\ NanosThisLine' = NanosThisLine - NanosToInterrupt
    /\ LET b == BurstTie(CycleDrift, NanosToSoundSample)
       IN  /\ CycleDrift' = b.drift
           /\ events' = <<BurstEvent(NanosToSoundSample, b), AudioEvent, TimerEvent>>
    /\ NanosToInterrupt' = MasterTickCounter
    /\ NanosToSoundSample' = SoundInterupt
    /\ meter' = Track(meter, events')
    /\ LoopFrame

\* case 3, both countdowns equal
Case3Same ==
    /\ pc = "loop" /\ NanosThisLine >= Tick
    /\ StateSwitch = 3
    /\ NanosToSoundSample = NanosToInterrupt
    /\ NanosThisLine' = NanosThisLine - NanosToInterrupt
    /\ LET b == BurstTie(CycleDrift, NanosToSoundSample)
       IN  /\ CycleDrift' = b.drift
           /\ events' = <<BurstEvent(NanosToSoundSample, b), TimerEvent, AudioEvent>>
    /\ NanosToInterrupt' = MasterTickCounter
    /\ NanosToSoundSample' = SoundInterupt
    /\ meter' = Track(meter, events')
    /\ LoopFrame

\* a loop that gives up while a whole nanosecond is still left
CPUCycleReturnEarly ==
    /\ pc = "loop" /\ NanosThisLine < 2 * Tick
    /\ pc' = "idle"
    /\ UNCHANGED <<clockVars, timerVars, audioVars, IntEnable, OverClock,
                   events, lastOp, nCalls, nConfig, meter>>
    /\ UNCHANGED restVars

\* the while condition fails: CPUCycle returns
CPUCycleReturn ==
    /\ pc = "loop" /\ NanosThisLine < Tick
    /\ pc' = "idle"
    /\ UNCHANGED <<clockVars, timerVars, audioVars, IntEnable, OverClock,
                   events, lastOp, nCalls, nConfig, meter>>
    /\ UNCHANGED restVars

\* ---------------------------------------------------- configuration calls
\* SetMasterTickCounter without the extra tick
MasterTickNoExtraTick(unxlated, rate) ==
    LET Rate   == <<NANOSECOND \div (TARGETFRAMERATE * LINESPERSCREEN),
                    NANOSECOND \div COLORBURST>>
        master == unxlated * Rate[rate + 1]
    IN  IF master # OldMaster
        THEN [master |-> master, old |-> master, toInterrupt |-> master]
        ELSE [master |-> master, old |-> OldMaster, toInterrupt |-> NanosToInterrupt]

\* SetMasterTickCounter reloading the countdown on every call
MasterTickAlwaysReloads(unxlated, rate) ==
    LET Rate   == <<NANOSECOND \div (TARGETFRAMERATE * LINESPERSCREEN),
                    NANOSECOND \div COLORBURST>>
        master == (unxlated + 1) * Rate[rate + 1]
    IN  [master |-> master, old |-> master, toInterrupt |-> master]

\* the state SetMasterTickCounter leaves, given the register and the mode
\* it is called with: [master, old, toInterrupt]
MasterTick(unxlated, rate) ==
    LET Rate   == <<NANOSECOND \div (TARGETFRAMERATE * LINESPERSCREEN),
                    NANOSECOND \div COLORBURST>>
        master == (unxlated + 1) * Rate[rate + 1]
    IN  IF master # OldMaster
        THEN [master |-> master, old |-> master, toInterrupt |-> master]
        ELSE [master |-> master, old |-> OldMaster, toInterrupt |-> NanosToInterrupt]

\* a configuration call is made between two CPUCycle calls
Configure ==
    /\ pc = "idle"
    /\ nConfig < MaxConfig
    /\ nConfig' = nConfig + 1

\* the timer part of the meter restarts when a configuration call returns
Reconfigured(m) ==
    TimerRestart(m, IntEnable' = 1 /\ SndEnable' = 0
                    /\ NanosToInterrupt' = MasterTickCounter')

SetInteruptTimer(Timer) ==
    /\ Configure
    /\ UnxlatedTickCounter' = LowBits(Timer, 12)
    /\ LET t == MasterTick(UnxlatedTickCounter', TimerClockRate)
       IN  /\ MasterTickCounter' = t.master
           /\ OldMaster' = t.old
           /\ NanosToInterrupt' = t.toInterrupt
    /\ IntEnable' = 1
    /\ lastOp' = <<"SetInteruptTimer", Timer, 0>>
    /\ UNCHANGED <<pc, NanosThisLine, NanosToSoundSample, CycleDrift, TimerClockRate,
                   audioVars, OverClock, events, nCalls>>
    /\ UNCHANGED restVars
    /\ meter' = Reconfigured(meter)

SetTimerClockRate(Tmp) ==
    /\ Configure
    /\ TimerClockRate' = (IF Tmp # 0 THEN 1 ELSE 0)
    /\ LET t == MasterTick(UnxlatedTickCounter, TimerClockRate')
       IN  /\ MasterTickCounter' = t.master
           /\ OldMaster' = t.old
           /\ NanosToInterrupt' = t.toInterrupt
    /\ lastOp' = <<"SetTimerClockRate", Tmp, 0>>
    /\ UNCHANGED <<pc, NanosThisLine, NanosToSoundSample, CycleDrift, UnxlatedTickCounter,
                   IntEnable, audioVars, OverClock, events, nCalls>>
    /\ UNCHANGED restVars
    /\ meter' = Reconfigured(meter)

MiscReset ==
    /\ Configure
    /\ TimerClockRate' = 0
    /\ MasterTickCounter' = 0
    /\ UnxlatedTickCounter' = 0
    /\ OldMaster' = 0
    /\ SoundInterupt' = 0
    /\ NanosToSoundSample' = 0
    /\ CycleDrift' = 0
    /\ NanosThisLine' = 0
    /\ IntEnable' = 0
    /\ lastOp' = <<"MiscReset", 0, 0>>
    /\ NanosToAudioSample' = 0
    /\ AudioIndex' = 0
    /\ UNCHANGED padding
    /\ HorzInteruptEnabled' = 0
    /\ VertInteruptEnabled' = 0
    /\ TimerInteruptEnabled' = 0
    /\ UNCHANGED <<pc, NanosToInterrupt, SndEnable, SoundRate, OverClock, events, nCalls>>
    /\ UNCHANGED <<geomVars, frameVars, mixerVars, emuVars, cartVars, thread>>
    /\ meter' = CycleRestart(Reconfigured(meter))

SetAudioRate(Rate) ==
    /\ Configure
    /\ CycleDrift' = 0
    /\ IF Rate = 0
       THEN /\ SndEnable' = 0
            /\ SoundInterupt' = 0
            /\ UNCHANGED <<NanosToSoundSample, NanosToAudioSample>>
       ELSE /\ SndEnable' = 1
            /\ SoundInterupt' = NANOSECOND \div Rate
            /\ NanosToSoundSample' = SoundInterupt'
            /\ NanosToAudioSample' = NANOSECOND \div AUDIO_RATE
    /\ SoundRate' = Rate
    /\ lastOp' = <<"SetAudioRate", Rate, 0>>
    /\ UNCHANGED <<pc, NanosThisLine, NanosToInterrupt, timerVars, IntEnable,
                   OverClock, events, nCalls>>
    /\ UNCHANGED <<geomVars, gimeVars, frameVars, mixerVars, AudioIndex, padding, emuVars, cartVars, thread>>
    /\ meter' = [CycleRestart(Reconfigured(meter)) EXCEPT !.muted = (Rate = 0)]

\* what GetTapeRate() answers
TapeRate == 44100
\* the Mode arguments: 0 = Speaker, 1 = Cassette Out, 2 = Cassette In
SoundOutputModes == {0, 1, 2}

\* SetSndOutMode(Mode), called between two lines or two frames.  On a change of
\* mode it installs the handler and calls SetAudioRate; only case 0 hands the
\* cassette buffer to FlushCassetteBuffer, which leaves CassIndex alone.
\* tape.speaker keeps <<SoundRate, SoundInterupt, SndEnable>> as they were
\* when the route last left the speaker.
SetSndOutMode(Mode) ==
    /\ pc = "idle" /\ rf.hline = "start"
    /\ tape.routes < MaxRouteSets
    /\ lastOp' = <<"SetSndOutMode", Mode, 0>>
    /\ IF Mode = LastMode
       THEN /\ tape' = [tape EXCEPT !.routes = @ + 1]
            /\ UNCHANGED <<SoundOutputMode, LastMode, AudioEventFn, CycleDrift,
                           NanosToSoundSample, NanosToAudioSample, audioVars>>
       ELSE LET Rate == IF Mode = 0 THEN SoundRate ELSE TapeRate
            IN  /\ tape' = IF Mode = 0 /\ LastMode = 1
                           THEN [tape EXCEPT !.routes = @ + 1, !.pending = 0,
                                             !.written = CassBytes(CassBuffer, CassIndex)]
                           ELSE [tape EXCEPT !.routes = @ + 1,
                                             !.speaker = IF LastMode = 0
                                                         THEN <<SoundRate, SoundInterupt,
                                                                SndEnable>>
                                                         ELSE @]
                /\ AudioEventFn' = CASE Mode = 0 -> "AudioOut"
                                     [] Mode = 1 -> "CassOut"
                                     [] Mode = 2 -> "CassIn"
                \* SetAudioRate(Rate)
                /\ CycleDrift' = 0
                /\ SndEnable' = (IF Rate = 0 THEN 0 ELSE 1)
                /\ SoundInterupt' = (IF Rate = 0 THEN 0 ELSE NANOSECOND \div Rate)
                /\ NanosToSoundSample' = (IF Rate = 0 THEN NanosToSoundSample
                                          ELSE SoundInterupt')
                /\ NanosToAudioSample' = (IF Rate = 0 THEN NanosToAudioSample
                                          ELSE NANOSECOND \div AUDIO_RATE)
                /\ SoundRate' = Rate
                /\ LastMode' = Mode
                /\ SoundOutputMode' = Mode
    /\ UNCHANGED <<pc, NanosThisLine, NanosToInterrupt, timerVars, IntEnable, OverClock,
                   events, nCalls, nConfig>>
    /\ UNCHANGED <<CassIndex, CassBufferSize, CassBuffer, LastMotorState, fade, fadeTo>>
    /\ UNCHANGED <<geomVars, gimeVars, frameVars, AudioIndex, padding, emuVars, cartVars, thread>>
    /\ meter' = IF Mode = LastMode THEN meter
                ELSE [CycleRestart(Reconfigured(meter)) EXCEPT !.muted = (SoundRate' = 0)]

SetClockSpeed(Cycles) ==
    /\ Configure
    /\ OverClock' = Cycles
    /\ lastOp' = <<"SetClockSpeed", Cycles, 0>>
    /\ meter' = [meter EXCEPT !.acct = (Cycles = OverClock /\ @)]
    /\ UNCHANGED <<pc, clockVars, timerVars, audioVars, IntEnable, events, nCalls>>
    /\ UNCHANGED restVars

\* the State arguments of the three interrupt-enable setters
EnableStates == {0, 2}

\* what an interrupt-enable setter leaves alone
SetterFrame ==
    /\ UNCHANGED <<pc, clockVars, timerVars, audioVars, IntEnable, OverClock, events,
                   nCalls, meter>>
    /\ UNCHANGED <<geomVars, frameVars, mixerVars, NanosToAudioSample, AudioIndex, padding,
                   emuVars, cartVars, thread>>

SetHorzInteruptState(State) ==
    /\ Configure
    /\ HorzInteruptEnabled' = (IF State # 0 THEN 1 ELSE 0)
    /\ lastOp' = <<"SetHorzInteruptState", State, 0>>
    /\ UNCHANGED <<VertInteruptEnabled, TimerInteruptEnabled>>
    /\ SetterFrame

SetVertInteruptState(State) ==
    /\ Configure
    /\ VertInteruptEnabled' = (IF State # 0 THEN 1 ELSE 0)
    /\ lastOp' = <<"SetVertInteruptState", State, 0>>
    /\ UNCHANGED <<HorzInteruptEnabled, TimerInteruptEnabled>>
    /\ SetterFrame

SetTimerInteruptState(State) ==
    /\ Configure
    /\ TimerInteruptEnabled' = State
    /\ lastOp' = <<"SetTimerInteruptState", State, 0>>
    /\ UNCHANGED <<HorzInteruptEnabled, VertInteruptEnabled>>
    /\ SetterFrame

\* ----------------------------------------------------------- line geometry
\* The four tables SetLinesperScreen indexes are declared outside the
\* sources at hand.  The active line counts are those the comment in
\* RenderFrame gives (192, 199, 225); the centring offsets and the
\* off-screen counts are taken so that each mode partitions the field as the
\* specification of the line geometry requires: border + active lines
\* within 239, and 4 + 3 + 239 + off-screen lines = lines per field.
Lpf                  == <<192, 199, 225, 225>>
VcenterTable         == <<29, 23, 12, 12>>
TopOffScreenTable    == <<8, 8, 8, 8>>
BottomOffScreenTable == <<8, 8, 8, 8>>
\* arguments of SetLinesperScreen (an unsigned char)
LineSelectors == {0, 1, 2, 3, 6}

\* conversion of an int to unsigned char
Byte(n) == n % 256

\* the bottom border computed without the top border
SetLinesperScreenForgetsTop(Lines) ==
    /\ pc = "idle" /\ rf.phase = "idle"
    /\ video.sets < MaxModeSets
    /\ LET sel == LowBits(Lines, 2)
       IN  /\ LinesperScreen' = Lpf[sel + 1]
           /\ TopBoarder' = VcenterTable[sel + 1]
           /\ BottomBoarder' = Byte(239 - LinesperScreen')
           /\ TopOffScreen' = TopOffScreenTable[sel + 1]
           /\ BottomOffScreen' = BottomOffScreenTable[sel + 1]
    /\ video' = [video EXCEPT !.Lines = Lines, !.sets = @ + 1]
    /\ UNCHANGED <<schedVars, BlinkPhase, rf, frame, mixerVars, NanosToAudioSample,
                   AudioIndex, padding, gimeVars,
                   emuVars, cartVars, thread>>

SetLinesperScreen(Lines) ==
    /\ pc = "idle" /\ rf.phase = "idle"
    /\ video.sets < MaxModeSets
    /\ LET sel == LowBits(Lines, 2)
       IN  /\ LinesperScreen' = Lpf[sel + 1]
           /\ TopBoarder' = VcenterTable[sel + 1]
           /\ BottomBoarder' = Byte(239 - (TopBoarder' + LinesperScreen'))
           /\ TopOffScreen' = TopOffScreenTable[sel + 1]
           /\ BottomOffScreen' = BottomOffScreenTable[sel + 1]
    /\ video' = [video EXCEPT !.Lines = Lines, !.sets = @ + 1]
    /\ UNCHANGED <<schedVars, BlinkPhase, rf, frame, mixerVars, NanosToAudioSample,
                   AudioIndex, padding, gimeVars,
                   emuVars, cartVars, thread>>

\* ------------------------------------------------------------- RenderFrame
\* RenderFrame's static frame counter is never advanced, and the frame skip
\* of EmuState is 1
FrameCounter == 0
FrameSkip    == 1
RENDERS_PER_BLINK_TOGGLE == 16
\* this frame draws: !(FrameCounter % RFState->FrameSkip); frame.FrameSkip is
\* the FrameSkip of the SystemState the call in progress was handed
Drawing == FrameCounter % frame.FrameSkip = 0

\* the line loops of RenderFrame, in order, and the bound of each
LoopPhases == {"vsyncLow", "vsyncHigh", "topOff", "topBorder", "active",
               "bottomBorder", "bottomOff"}
\* three lines of VSYNC low and four after it
PhaseLimitSwapped(phase) ==
    CASE phase = "vsyncLow"     -> 3
      [] phase = "vsyncHigh"    -> 4
      [] phase = "topOff"       -> TopOffScreen
      [] phase = "topBorder"    -> TopBoarder
      [] phase = "active"       -> LinesperScreen
      [] phase = "bottomBorder" -> BottomBoarder
      [] phase = "bottomOff"    -> BottomOffScreen

PhaseLimit(phase) ==
    CASE phase = "vsyncLow"     -> 4
      [] phase = "vsyncHigh"    -> 3
      [] phase = "topOff"       -> TopOffScreen
      [] phase = "topBorder"    -> TopBoarder
      [] phase = "active"       -> LinesperScreen
      [] phase = "bottomBorder" -> BottomBoarder
      [] phase = "bottomOff"    -> BottomOffScreen
\* the loops whose lines are drawn on a frame that is not skipped
DrawnPhases == {"topBorder", "active", "bottomBorder"}

\* in a line loop, before HLINE of the next line
AtLine    == /\ pc = "idle" /\ rf.phase \in LoopPhases /\ rf.hline = "start"
             /\ rf.LineCounter < PhaseLimit(rf.phase)
\* in a line loop whose condition has just failed
AtLoopEnd == /\ pc = "idle" /\ rf.phase \in LoopPhases /\ rf.hline = "start"
             /\ rf.LineCounter >= PhaseLimit(rf.phase)

\* what a step of RenderFrame leaves alone outside the scheduler
FrameRest == UNCHANGED <<geomVars, BlinkPhase, video, SoundOutputMode, LastMode,
                         AudioEventFn, CassIndex, CassBufferSize, CassBuffer,
                         LastMotorState, fade, fadeTo, NanosToAudioSample,
                         gimeVars, emuVars, cartVars, thread>>

\* a CPUCycle call that runs the line whatever IsHalted() answers
HLINECallRunsHalted(NanosToRun) ==
    /\ events' = <<>>
    /\ lastOp' = <<"CPUCycle", NanosToRun, frame.halted>>
    /\ pc' = "loop"
    /\ NanosThisLine' = NanosThisLine + NanosToRun
    /\ meter' = [meter EXCEPT !.owed = @ + NanosToRun * CyclesPerLine * OverClock,
                              !.budget = @ + NanosToRun,
                              !.fresh = (IntEnable = 1 /\ SndEnable = 0
                                         /\ NanosToInterrupt = MasterTickCounter),
                              !.callFires = 0, !.callSince = 0, !.firstAt = -1]
    /\ frame' = [frame EXCEPT !.budget = @ + NanosToRun]
    /\ UNCHANGED <<NanosToInterrupt, NanosToSoundSample, CycleDrift,
                   timerVars, audioVars, IntEnable, OverClock, nCalls, nConfig>>

\* CPUCycle(NanosToRun) as HLINE calls it; frame.halted is what
\* Debugger.IsHalted() answers during this frame
HLINECall(NanosToRun) ==
    /\ events' = <<>>
    /\ lastOp' = <<"CPUCycle", NanosToRun, frame.halted>>
    /\ IF frame.halted = 1
       THEN UNCHANGED <<pc, NanosThisLine, meter>>
       ELSE /\ pc' = "loop"
            /\ NanosThisLine' = NanosThisLine + NanosToRun
            /\ meter' = [meter EXCEPT !.owed = @ + NanosToRun * CyclesPerLine * OverClock,
                                      !.budget = @ + NanosToRun,
                                      !.fresh = (IntEnable = 1 /\ SndEnable = 0
                                                 /\ NanosToInterrupt = MasterTickCounter),
                                      !.callFires = 0, !.callSince = 0, !.firstAt = -1]
    /\ frame' = [frame EXCEPT !.budget = @ + NanosToRun]
    /\ UNCHANGED <<NanosToInterrupt, NanosToSoundSample, CycleDrift,
                   timerVars, audioVars, IntEnable, OverClock, nCalls, nConfig>>

\* what GetFreeBlockCount() answers
GetFreeBlockCount == 4

\* VSYNC(level) and HSYNC(level): the GimeAssertVertInterupt and
\* GimeAssertHorzInterupt calls the edge makes
VSYNCBothEdges(level) == IF VertInteruptEnabled # 0 THEN 1 ELSE 0
VSYNC(level) == IF level = 0 /\ VertInteruptEnabled # 0 THEN 1 ELSE 0
HSYNC(level) == IF level = 0 /\ HorzInteruptEnabled # 0 THEN 1 ELSE 0

\* the state a RenderFrame call returns to: runFrame() goes on to
\* captureAudioSamples()
ReturnTo == IF emu.last[1] = "runFrame" THEN "capture" ELSE "idle"

\* RenderFrame(RFState), up to the first line loop.  `halted' is what
\* Debugger.IsHalted() answers while the frame is rendered, `skip' is
\* RFState->FrameSkip.  frame.n counts the calls and frame.locks the calls
\* that went to LockScreen.
RenderFrame(halted, skip) ==
    /\ pc = "idle" /\ rf.phase = "idle"
    /\ LastMotorState' \in {0, 1}            \* GetMotorState() answers
    /\ IF BlinkPhase > RENDERS_PER_BLINK_TOGGLE
       THEN /\ BlinkPhase' = 0
            /\ video' = [video EXCEPT !.blinks = @ + 1]
       ELSE /\ BlinkPhase' = Byte(BlinkPhase + 1)
            /\ UNCHANGED video
    /\ rf' = [phase |-> "vsyncLow", LineCounter |-> 0, hline |-> "start", horz |-> 0]
    /\ frame' = [n |-> frame.n + 1, lines |-> 0, budget |-> 0, drawn |-> 0,
                 lock |-> -1, flushed |-> FALSE, done |-> FALSE,
                 trace |-> <<"VSYNC0">>, mode |-> video.Lines,
                 halted |-> halted, vert |-> VSYNC(0), audio |-> -1,
                 FrameSkip |-> skip, locks |-> frame.locks]
    /\ UNCHANGED <<schedVars, geomVars, SoundOutputMode, LastMode, AudioEventFn,
                   CassIndex, CassBufferSize, CassBuffer, fade, fadeTo, tape,
                   NanosToAudioSample, AudioIndex, padding, gimeVars, m_config, m_ready,
                   m_lastError, cartVars, thread>>

\* padding on every line once the buffer holds a sample
UpdateAudioEveryLine ==
    IF GetFreeBlockCount > 1 /\ AudioIndex > 0 THEN AudioIndex + 1 ELSE AudioIndex

\* UpdateAudio(): one sample of padding after the first of every 64
UpdateAudio ==
    IF GetFreeBlockCount > 1 /\ AudioIndex % 64 = 1 THEN AudioIndex + 1 ELSE AudioIndex

\* HLINE: UpdateAudio, then the first part of the line
HLINEFirst ==
    /\ AtLine
    /\ AudioIndex' = UpdateAudio
    /\ padding' = IF UpdateAudio # AudioIndex
                   THEN [padding EXCEPT !.value = padding.last, !.since = 0]
                   ELSE padding
    /\ HLINECall(NanosPerLine - HSYNCWidthInNanos)
    /\ rf' = [rf EXCEPT !.hline = "first", !.horz = 0]
    /\ UNCHANGED tape
    /\ FrameRest

\* HLINE: HSYNC goes low, then the rest of the line
HLINESecond ==
    /\ pc = "idle" /\ rf.hline = "first"
    /\ HLINECall(HSYNCWidthInNanos)
    /\ rf' = [rf EXCEPT !.hline = "second", !.horz = @ + HSYNC(0)]
    /\ UNCHANGED <<tape, AudioIndex, padding>>
    /\ FrameRest

\* HLINE returns (HSYNC high); the loop body draws the line and counts it
HLINEEnd ==
    /\ pc = "idle" /\ rf.hline = "second"
    /\ rf' = [rf EXCEPT !.hline = "start", !.LineCounter = @ + 1,
                        !.horz = @ + HSYNC(1)]
    /\ frame' = [frame EXCEPT
                   !.lines = @ + 1,
                   !.drawn = IF rf.phase \in DrawnPhases /\ Drawing THEN @ + 1 ELSE @]
    /\ UNCHANGED <<schedVars, tape, AudioIndex, padding>>
    /\ FrameRest

\* the loops that simply run into the next one; VSYNC goes high after the
\* first
EndLoop ==
    /\ AtLoopEnd
    /\ rf.phase \in {"vsyncLow", "vsyncHigh", "topBorder", "active"}
    /\ rf' = [rf EXCEPT !.LineCounter = 0,
                        !.phase = CASE rf.phase = "vsyncLow"  -> "vsyncHigh"
                                    [] rf.phase = "vsyncHigh" -> "topOff"
                                    [] rf.phase = "topBorder" -> "active"
                                    [] rf.phase = "active"    -> "bottomBorder"]
    /\ frame' = [frame EXCEPT !.trace = IF rf.phase = "vsyncLow"
                                        THEN Append(@, "VSYNC1") ELSE @,
                              !.vert = IF rf.phase = "vsyncLow"
                                       THEN @ + VSYNC(1) ELSE @]
    /\ UNCHANGED <<schedVars, tape, AudioIndex, padding>>
    /\ FrameRest

\* after the off-screen top border: LockScreen() answers `failed' (non-zero:
\* failure) and RenderFrame returns 0 at once when it failed
LockScreen(failed) ==
    /\ AtLoopEnd /\ rf.phase = "topOff"
    /\ IF Drawing /\ failed # 0
       THEN /\ rf' = [rf EXCEPT !.phase = ReturnTo, !.LineCounter = 0]
            /\ frame' = [frame EXCEPT !.lock = 1, !.done = TRUE, !.locks = @ + 1,
                                      !.trace = Append(@, "LockFailed")]
       ELSE /\ rf' = [rf EXCEPT !.phase = "topBorder", !.LineCounter = 0]
            /\ frame' = [frame EXCEPT !.lock = IF Drawing THEN 0 ELSE @,
                                      !.locks = IF Drawing THEN @ + 1 ELSE @,
                                      !.trace = IF Drawing THEN Append(@, "Lock") ELSE @]
    /\ UNCHANGED <<schedVars, tape, AudioIndex, padding>>
    /\ FrameRest

\* after the bottom border: the last border line, UnlockScreen
UnlockScreen ==
    /\ AtLoopEnd /\ rf.phase = "bottomBorder"
    /\ rf' = [rf EXCEPT !.phase = "bottomOff", !.LineCounter = 0]
    /\ frame' = [frame EXCEPT !.drawn = IF Drawing THEN @ + 1 ELSE @,
                              !.trace = IF Drawing THEN Append(@, "Unlock") ELSE @]
    /\ UNCHANGED <<schedVars, tape, AudioIndex, padding>>
    /\ FrameRest

\* after the off-screen bottom border: the buffers are flushed and
\* RenderFrame returns.  FlushCassetteBuffer is handed CassBuffer and
\* CassIndex and leaves both alone; FlushAudioBuffer is handed AudioIndex
\* samples (frame.audio), and AudioIndex is zeroed.
RenderFrameReturn ==
    /\ AtLoopEnd /\ rf.phase = "bottomOff"
    /\ rf' = [rf EXCEPT !.phase = ReturnTo, !.LineCounter = 0]
    /\ frame' = [frame EXCEPT !.flushed = TRUE, !.done = TRUE,
                              !.audio = AudioIndex,
                              !.trace = Append(@, "Flush")]
    /\ AudioIndex' = 0
    /\ UNCHANGED padding
    /\ tape' = IF SoundOutputMode = 1
               THEN [tape EXCEPT !.written = CassBytes(CassBuffer, CassIndex),
                                 !.pending = 0]
               ELSE tape
    /\ UNCHANGED schedVars
    /\ FrameRest

\* ------------------------------------------------------------ CocoEmulator
\* sample rates an EmulatorConfig is constructed with
ConfigAudioRates == {0, AUDIO_RATE}

\* a facade call is made between frames, by the thread that runs them
FacadeCall(name, arg, result) ==
    /\ pc = "idle" /\ rf.phase = "idle"
    /\ emu.calls < MaxEmuCalls
    /\ emu' = [emu EXCEPT !.calls = @ + 1, !.last = <<name, arg>>, !.result = result,
                          !.reinit = (name = "init" /\ m_ready)]

\* init().  `mmuOk': MmuInit returned memory.  On the way it calls
\* MiscReset() and then SetAudioRate(m_config.audioSampleRate).
init(mmuOk) ==
    /\ FacadeCall("init", mmuOk, m_ready \/ mmuOk)
    /\ IF m_ready
       THEN UNCHANGED <<schedVars, NanosToAudioSample, AudioIndex, padding, gimeVars,
                        m_ready, m_lastError>>
       ELSE IF ~mmuOk
       THEN /\ m_lastError' = "Failed to initialize MMU"
            /\ UNCHANGED <<schedVars, NanosToAudioSample, AudioIndex, padding, gimeVars, m_ready>>
       ELSE LET Rate == m_config.audioSampleRate
            IN  \* MiscReset()
                /\ TimerClockRate' = 0
                /\ MasterTickCounter' = 0
                /\ UnxlatedTickCounter' = 0
                /\ OldMaster' = 0
                /\ NanosThisLine' = 0
                /\ IntEnable' = 0
                /\ AudioIndex' = 0
                /\ UNCHANGED padding
                /\ HorzInteruptEnabled' = 0
                /\ VertInteruptEnabled' = 0
                /\ TimerInteruptEnabled' = 0
                \* SetAudioRate(Rate)
                /\ CycleDrift' = 0
                /\ SndEnable' = (IF Rate = 0 THEN 0 ELSE 1)
                /\ SoundInterupt' = (IF Rate = 0 THEN 0 ELSE NANOSECOND \div Rate)
                /\ NanosToSoundSample' = SoundInterupt'
                /\ NanosToAudioSample' = (IF Rate = 0 THEN 0
                                          ELSE NANOSECOND \div AUDIO_RATE)
                /\ SoundRate' = Rate
                /\ lastOp' = <<"SetAudioRate", Rate, 0>>
                /\ meter' = [CycleRestart(TimerRestart(meter, FALSE))
                                EXCEPT !.muted = (Rate = 0)]
                /\ UNCHANGED <<pc, NanosToInterrupt, OverClock, events, nCalls, nConfig>>
                /\ m_ready' = TRUE
                /\ m_lastError' = ""
    /\ UNCHANGED <<geomVars, frameVars, mixerVars, m_config, cartVars, thread>>

\* runFrame(): RenderFrame when ready, then captureAudioSamples.
\* Debugger.IsHalted() of this build always answers false.
runFrame ==
    /\ FacadeCall("runFrame", 0, TRUE)
    /\ IF m_ready
       THEN frame.n < MaxFrames /\ RenderFrame(0, FrameSkip)
       ELSE UNCHANGED <<schedVars, geomVars, gimeVars, frameVars, mixerVars, NanosToAudioSample, AudioIndex, padding,
                        m_config, m_ready, m_lastError, cartVars, thread>>

\* captureAudioSamples(), when RenderFrame has returned to runFrame(): the
\* samples are copied out and ResetAudioIndex() zeroes AudioIndex
captureAudioSamples ==
    /\ pc = "idle" /\ rf.phase = "capture"
    /\ rf' = [rf EXCEPT !.phase = "idle"]
    /\ AudioIndex' = 0
    /\ UNCHANGED padding
    /\ UNCHANGED <<schedVars, geomVars, gimeVars, BlinkPhase, frame, video, mixerVars,
                   NanosToAudioSample, emuVars, cartVars, thread>>

\* what reset() does to the state of coco3.cpp when the emulator is ready:
\* MiscReset().  (GimeReset, mc6883_reset and the CPU reset touch nothing
\* of this model.)
resetBody ==
    IF m_ready
    THEN /\ TimerClockRate' = 0
         /\ MasterTickCounter' = 0
         /\ UnxlatedTickCounter' = 0
         /\ OldMaster' = 0
         /\ SoundInterupt' = 0
         /\ NanosToSoundSample' = 0
         /\ NanosToAudioSample' = 0
         /\ AudioIndex' = 0
         /\ UNCHANGED padding
         /\ HorzInteruptEnabled' = 0
         /\ VertInteruptEnabled' = 0
         /\ TimerInteruptEnabled' = 0
         /\ CycleDrift' = 0
         /\ NanosThisLine' = 0
         /\ IntEnable' = 0
         /\ lastOp' = <<"MiscReset", 0, 0>>
         /\ UNCHANGED <<pc, NanosToInterrupt, SndEnable, SoundRate, OverClock, events,
                        nCalls, nConfig>>
         /\ meter' = CycleRestart(Reconfigured(meter))
    ELSE UNCHANGED <<schedVars, NanosToAudioSample, AudioIndex, padding, gimeVars>>

\* reset()
reset ==
    /\ FacadeCall("reset", 0, TRUE)
    /\ resetBody
    /\ UNCHANGED <<geomVars, frameVars, mixerVars, m_config, m_ready, m_lastError,
                   cartVars, thread>>

\* shutdown() leaving the emulator ready
shutdownKeepsReady ==
    /\ FacadeCall("shutdown", 0, TRUE)
    /\ UNCHANGED <<schedVars, geomVars, gimeVars, frameVars, mixerVars, NanosToAudioSample, AudioIndex, padding,
                   m_config, m_ready, m_lastError, cartVars, thread>>

\* shutdown()
shutdown ==
    /\ FacadeCall("shutdown", 0, TRUE)
    /\ m_ready' = (IF m_ready THEN FALSE ELSE m_ready)
    /\ UNCHANGED <<schedVars, geomVars, gimeVars, frameVars, mixerVars, NanosToAudioSample, AudioIndex, padding,
                   m_config, m_lastError, cartVars, thread>>

\* the input calls reach the keyboard and the joystick only, which are
\* outside this model
KeyArgs == {<<0, 0, TRUE>>, <<7, 0, TRUE>>}
setKeyState(row, col, pressed) ==
    /\ FacadeCall("setKeyState", <<row, col, pressed>>,
                  ~(row < 0 \/ row >= 7 \/ col < 0 \/ col >= 8))
    /\ UNCHANGED <<schedVars, geomVars, gimeVars, frameVars, mixerVars, NanosToAudioSample, AudioIndex, padding,
                   m_config, m_ready, m_lastError, cartVars, thread>>

setJoystickAxis(joystick, axis, value) ==
    /\ FacadeCall("setJoystickAxis", <<joystick, axis, value>>, TRUE)
    /\ UNCHANGED <<schedVars, geomVars, gimeVars, frameVars, mixerVars, NanosToAudioSample, AudioIndex, padding,
                   m_config, m_ready, m_lastError, cartVars, thread>>

setJoystickButton(joystick, button, pressed) ==
    /\ FacadeCall("setJoystickButton", <<joystick, button, pressed>>, TRUE)
    /\ UNCHANGED <<schedVars, geomVars, gimeVars, frameVars, mixerVars, NanosToAudioSample, AudioIndex, padding,
                   m_config, m_ready, m_lastError, cartVars, thread>>

\* -------------------------------------------------------- CartridgeManager
\* ROM sizes are scaled like the clock: 8KB is PageBytes bytes, and the
\* sizes the code names are the same multiples of it
BankBytes    == 2 * PageBytes          \* 0x4000
WindowBytes  == 4 * PageBytes          \* 0x7FFF + 1
MAX_ROM_SIZE == 64 * PageBytes         \* 512 * 1024
\* the files a cartridge is loaded from: whether the path exists, its size,
\* whether it opens and reads, and its bytes when it does
CartFiles ==
    { [name |-> "game.ccc", exists |-> TRUE,  size |-> 2, opens |-> TRUE,
       reads |-> TRUE,  data |-> <<18, 52>>],
      [name |-> "banked.ccc", exists |-> TRUE, size |-> 3 * BankBytes, opens |-> TRUE,
       reads |-> TRUE,  data |-> [i \in 1..(3 * BankBytes) |-> i]],
      [name |-> "none.ccc", exists |-> FALSE, size |-> 0, opens |-> FALSE,
       reads |-> FALSE, data |-> <<>>],
      [name |-> "empty.ccc", exists |-> TRUE, size |-> 0, opens |-> TRUE,
       reads |-> TRUE,  data |-> <<>>],
      [name |-> "huge.ccc", exists |-> TRUE,  size |-> MAX_ROM_SIZE + 1, opens |-> TRUE,
       reads |-> TRUE,  data |-> <<>>],
      [name |-> "locked.ccc", exists |-> TRUE, size |-> 2, opens |-> FALSE,
       reads |-> FALSE, data |-> <<>>],
      [name |-> "short.ccc", exists |-> TRUE, size |-> 2, opens |-> TRUE,
       reads |-> FALSE, data |-> <<>>] }

\* the message of the check of CartridgeManager::load that `file' fails
\* first; "" when it passes them all
loadError(file) ==
    IF ~file.exists THEN "File not found"
    ELSE IF file.size = 0 THEN "Empty file"
    ELSE IF file.size > MAX_ROM_SIZE THEN "ROM file too large (max 512KB)"
    ELSE IF ~file.opens THEN "Failed to open file"
    ELSE IF ~file.reads THEN "Failed to read file"
    ELSE ""

\* load() ejecting the cartridge before it looks at the file
loadEjectsFirst(file) ==
    IF loadError(file) # ""
    THEN /\ cart_lastError' = loadError(file)
         /\ m_rom' = <<>>
         /\ m_name' = ""
         /\ m_bankSelect' = 0
    ELSE /\ m_rom' = file.data
         /\ m_name' = file.name
         /\ m_bankSelect' = 0
         /\ cart_lastError' = ""

\* CartridgeManager::load(path)
load(file) ==
    IF loadError(file) # ""
    THEN /\ cart_lastError' = loadError(file)
         /\ UNCHANGED <<m_rom, m_name, m_bankSelect>>
    ELSE /\ m_rom' = file.data
         /\ m_name' = file.name
         /\ m_bankSelect' = 0
         /\ cart_lastError' = ""

\* CartridgeManager::hasCartridge()
hasCartridge == m_rom # <<>>

\* loadCartridge(path): reset() follows a successful load
loadCartridge(file) ==
    /\ FacadeCall("loadCartridge", file.name, loadError(file) = "")
    /\ load(file)
    /\ IF loadError(file) # ""
       THEN /\ m_lastError' = cart_lastError'
            /\ UNCHANGED <<schedVars, NanosToAudioSample, AudioIndex, padding, gimeVars>>
       ELSE /\ resetBody
            /\ UNCHANGED m_lastError
    /\ UNCHANGED <<geomVars, frameVars, mixerVars, m_config, m_ready, thread>>

\* ejectCartridge(): CartridgeManager::eject()
ejectCartridge ==
    /\ FacadeCall("ejectCartridge", 0, TRUE)
    /\ m_rom' = <<>>
    /\ m_name' = ""
    /\ m_bankSelect' = 0
    /\ cart_lastError' = ""
    /\ UNCHANGED <<schedVars, geomVars, gimeVars, frameVars, mixerVars, NanosToAudioSample, AudioIndex, padding,
                   m_config, m_ready, m_lastError, thread>>

\* CartridgeManager::writePort(port, value), made by the program that runs
\* between two frames
PortWrites == {<<0, 1>>, <<1, 2>>}
writePort(port, value) ==
    /\ pc = "idle" /\ rf.phase = "idle"
    /\ m_bankSelect' = (IF port = 0 THEN value ELSE m_bankSelect)
    /\ emu' = [emu EXCEPT !.last = <<"writePort", <<port, value>>>>]
    /\ UNCHANGED <<m_rom, m_name, cart_lastError>>
    /\ UNCHANGED <<schedVars, geomVars, gimeVars, frameVars, mixerVars, NanosToAudioSample, AudioIndex, padding,
                   m_config, m_ready, m_lastError, thread>>

\* CartridgeManager::reset()
CartridgeManager_reset ==
    /\ pc = "idle" /\ rf.phase = "idle"
    /\ m_bankSelect' = 0
    /\ emu' = [emu EXCEPT !.last = <<"CartridgeManager::reset", 0>>]
    /\ UNCHANGED <<m_rom, m_name, cart_lastError>>
    /\ UNCHANGED <<schedVars, geomVars, gimeVars, frameVars, mixerVars, NanosToAudioSample, AudioIndex, padding,
                   m_config, m_ready, m_lastError, thread>>

\* the addresses the MMU asks for
CartAddresses == 0..WindowBytes
\* CartridgeManager::read(address)
read(address) ==
    IF m_rom = <<>> THEN 255
    ELSE LET masked == address % WindowBytes
         IN  IF masked >= Len(m_rom)
             THEN m_rom[(masked % Len(m_rom)) + 1]
             ELSE m_rom[masked + 1]

\* the emulator is destroyed (its destructor calls shutdown()) and
\* CocoEmulator::create(config) makes another.  The statics of coco3.cpp and
\* the CartridgeManager of getCartridgeManager() belong to the process.
recreate(config) ==
    /\ pc = "idle" /\ rf.phase = "idle"
    /\ emu.instance < MaxInstances
    /\ m_ready' = FALSE
    /\ m_config' = config
    /\ m_lastError' = ""
    /\ emu' = [emu EXCEPT !.instance = @ + 1, !.born = emu.calls,
                          !.last = <<"create", 0>>, !.result = TRUE, !.reinit = FALSE]
    /\ UNCHANGED <<schedVars, geomVars, gimeVars, frameVars, mixerVars, NanosToAudioSample, AudioIndex, padding, cartVars, thread>>

\* -------------------------------------------------------------------- Next
Next ==
    \/ \E b \in Budgets, h \in {0, 1} : CPUCycleEnter(b, h)
    \/ Case0
    \/ Case1
    \/ Case2
    \/ Case3AudioFirst
    \/ Case3InterruptFirst
    \/ Case3Same
    \/ CPUCycleReturn
    \/ \E t \in TimerValues : SetInteruptTimer(t)
    \/ \E r \in {0, 1} : SetTimerClockRate(r)
    \/ MiscReset
    \/ \E r \in AudioRates : SetAudioRate(r)
    \/ \E c \in ClockSpeeds : SetClockSpeed(c)

Spec == Init /\ [][Next]_vars

\* ------------------------------------------------------------- FrameSpec
\* frames rendered by an initialised emulator, in every line geometry
Create == \E rate \in ConfigAudioRates : Construct([audioSampleRate |-> rate])

FrameNext ==
    \/ \E ok \in BOOLEAN : init(ok)
    \/ runFrame
    \/ \E l \in LineSelectors : SetLinesperScreen(l)
    \/ HLINEFirst
    \/ HLINESecond
    \/ HLINEEnd
    \/ EndLoop
    \/ \E failed \in {0, 1} : LockScreen(failed)
    \/ UnlockScreen
    \/ RenderFrameReturn
    \/ captureAudioSamples
    \/ Case0
    \/ Case2
    \/ CPUCycleReturn

FrameSpec == Create /\ [][FrameNext]_vars

\* --------------------------------------------------------------- TapeSpec
\* RenderFrame called by the frame pump, the sound route being switched
\* between lines; the surface lock succeeds
RenderFrameCall == frame.n < MaxFrames /\ RenderFrame(0, FrameSkip) /\ UNCHANGED emu

TapeNext ==
    \/ RenderFrameCall
    \/ \E m \in SoundOutputModes : SetSndOutMode(m)
    \/ HLINEFirst
    \/ HLINESecond
    \/ HLINEEnd
    \/ EndLoop
    \/ LockScreen(0)
    \/ UnlockScreen
    \/ RenderFrameReturn
    \/ Case0
    \/ Case2
    \/ CPUCycleReturn

TapeSpec == Init /\ [][TapeNext]_vars

\* --------------------------------------------------------------- GimeSpec
\* RenderFrame called by the frame pump, with the debugger halting the CPU
\* or not, the timer, the sample rate and the interrupt enables being set
\* between frames
RenderFrameDebugged ==
    frame.n < MaxFrames /\ \E halted \in {0, 1} : RenderFrame(halted, FrameSkip) /\ UNCHANGED emu

GimeNext ==
    \/ RenderFrameDebugged
    \/ rf.phase = "idle" /\ \E r \in AudioRates : SetAudioRate(r)
    \/ rf.phase = "idle" /\ \E t \in TimerValues : SetInteruptTimer(t)
    \/ rf.phase = "idle" /\ \E r \in {0, 1} : SetTimerClockRate(r)
    \/ rf.phase = "idle" /\ \E e \in EnableStates : SetHorzInteruptState(e)
    \/ rf.phase = "idle" /\ \E e \in EnableStates : SetVertInteruptState(e)
    \/ rf.phase = "idle" /\ \E e \in EnableStates : SetTimerInteruptState(e)
    \/ HLINEFirst
    \/ HLINESecond
    \/ HLINEEnd
    \/ EndLoop
    \/ \E failed \in {0, 1} : LockScreen(failed)
    \/ UnlockScreen
    \/ RenderFrameReturn
    \/ Case0
    \/ Case1
    \/ Case2
    \/ Case3AudioFirst
    \/ Case3InterruptFirst
    \/ Case3Same
    \/ CPUCycleReturn

GimeSpec == Init /\ [][GimeNext]_vars

\* --------------------------------------------------------------- PumpSpec
\* RenderFrame called by the frame pump, frame after frame, with the same
\* SystemState; the line geometry and the sample rate are set once, before
\* the first frame, and the surface lock succeeds
FrameSkips == {1, 2}

RenderFramePump ==
    /\ frame.n < MaxPumpFrames
    /\ \E skip \in FrameSkips :
           /\ frame.n > 0 => skip = frame.FrameSkip
           /\ RenderFrame(0, skip)
    /\ UNCHANGED emu

PumpNext ==
    \/ frame.n = 0 /\ \E l \in LineSelectors : SetLinesperScreen(l)
    \/ rf.phase = "idle" /\ frame.n = 0 /\ nConfig = 0
          /\ \E r \in AudioRates : SetAudioRate(r)
    \/ RenderFramePump
    \/ HLINEFirst
    \/ HLINESecond
    \/ HLINEEnd
    \/ EndLoop
    \/ LockScreen(0)
    \/ UnlockScreen
    \/ RenderFrameReturn
    \/ Case0
    \/ Case2
    \/ CPUCycleReturn

PumpSpec == Init /\ [][PumpNext]_vars

\* ---------------------------------------------------------------- MixSpec
\* RenderFrame called by the frame pump after the sound route and the sample
\* rate have been set, in any order
MixNext ==
    \/ rf.phase = "idle" /\ frame.n = 0 /\ nConfig = 0
          /\ \E m \in SoundOutputModes : SetSndOutMode(m)
    \/ rf.phase = "idle" /\ frame.n = 0 /\ \E r \in AudioRates : SetAudioRate(r)
    \/ RenderFrameCall
    \/ HLINEFirst
    \/ HLINESecond
    \/ HLINEEnd
    \/ EndLoop
    \/ LockScreen(0)
    \/ UnlockScreen
    \/ RenderFrameReturn
    \/ Case0
    \/ Case2
    \/ CPUCycleReturn

MixSpec == Init /\ [][MixNext]_vars

\* --------------------------------------------------------------- RouteSpec
\* The sample rate is configured while the route is still the speaker, the
\* route is then switched away and back, and one frame runs
RouteNext ==
    \/ rf.phase = "idle" /\ frame.n = 0 /\ tape.routes = 0
          /\ \E r \in AudioRates : SetAudioRate(r)
    \/ rf.phase = "idle" /\ frame.n = 0 /\ \E m \in SoundOutputModes : SetSndOutMode(m)
    \/ RenderFrameCall
    \/ HLINEFirst
    \/ HLINESecond
    \/ HLINEEnd
    \/ EndLoop
    \/ LockScreen(0)
    \/ UnlockScreen
    \/ RenderFrameReturn
    \/ Case0
    \/ Case2
    \/ CPUCycleReturn

RouteSpec == Init /\ [][RouteNext]_vars

\* --------------------------------------------------------------- RampSpec
\* RenderFrame called by the frame pump, frame after frame, Cassette In and
\* the line geometry set once before the first frame and the sample rate set
\* between frames, at most once before each; GetMuxState() answers
\* PIA_MUX_CASSETTE throughout
Case2MuxCassette == Case2 /\ (AudioEventFn = "CassIn" => tape'.mux = 1)

RenderFrameRamp ==
    frame.n < MaxPumpFrames /\ RenderFrame(0, FrameSkip) /\ UNCHANGED emu

RampNext ==
    \/ frame.n = 0 /\ SetLinesperScreen(0)
    \/ rf.phase = "idle" /\ frame.n = 0 /\ tape.routes = 0 /\ SetSndOutMode(2)
    \/ rf.phase = "idle" /\ nConfig <= frame.n /\ \E r \in AudioRates : SetAudioRate(r)
    \/ RenderFrameRamp
    \/ HLINEFirst
    \/ HLINESecond
    \/ HLINEEnd
    \/ EndLoop
    \/ LockScreen(0)
    \/ UnlockScreen
    \/ RenderFrameReturn
    \/ Case0
    \/ Case2MuxCassette
    \/ CPUCycleReturn

RampSpec == Init /\ [][RampNext]_vars

\* -------------------------------------------------------- LostSurfaceSpec
\* RenderFrame called by the frame pump, frame after frame, while the video
\* surface cannot be locked; the sample rate is set before the first frame
RenderFrameLost ==
    frame.n < MaxLostFrames /\ RenderFrame(0, FrameSkip) /\ UNCHANGED emu

LostSurfaceNext ==
    \/ rf.phase = "idle" /\ frame.n = 0 /\ \E r \in AudioRates : SetAudioRate(r)
    \/ RenderFrameLost
    \/ HLINEFirst
    \/ HLINESecond
    \/ HLINEEnd
    \/ EndLoop
    \/ LockScreen(1)
    \/ Case0
    \/ Case2
    \/ CPUCycleReturn

LostSurfaceSpec == Init /\ [][LostSurfaceNext]_vars

\* ---------------------------------------------------------------- EmuSpec
\* the calls of the CocoEmulator interface, in any order, on one instance
EmuNext ==
    \/ \E ok \in BOOLEAN : init(ok)
    \/ reset
    \/ shutdown
    \/ runFrame
    \/ \E k \in KeyArgs : setKeyState(k[1], k[2], k[3])
    \/ setJoystickAxis(0, 0, 63)
    \/ setJoystickButton(0, 0, TRUE)
    \/ \E f \in CartFiles : loadCartridge(f)
    \/ ejectCartridge
    \/ \E w \in PortWrites : writePort(w[1], w[2])
    \/ CartridgeManager_reset
    \/ HLINEFirst
    \/ HLINESecond
    \/ HLINEEnd
    \/ EndLoop
    \/ \E failed \in {0, 1} : LockScreen(failed)
    \/ UnlockScreen
    \/ RenderFrameReturn
    \/ captureAudioSamples
    \/ Case0
    \/ Case2
    \/ CPUCycleReturn

EmuSpec == Create /\ [][EmuNext]_vars

\* ------------------------------------------------------------ ProcessSpec
\* one emulator after another in the same process
ProcessNext ==
    \/ EmuNext
    \/ \E rate \in ConfigAudioRates : recreate([audioSampleRate |-> rate])

ProcessSpec == Create /\ [][ProcessNext]_vars

TypeOK ==
    /\ pc \in {"idle", "loop"}
    /\ IntEnable \in {0, 1} /\ SndEnable \in {0, 1}
    /\ NanosThisLine \in Int /\ NanosToInterrupt \in Int /\ NanosToSoundSample \in Int


\* ------------------------------------------------------------- ThreadSpec
\* dream::EmulationThread: one calling thread (the owner of the object) makes
\* the public calls one after the other, the emulation thread runs threadMain.
\* Each load or store of an atomic and each critical section is one step.
\* thread.at is where the emulation thread is, thread.caller where the calling
\* thread is.  thread.between holds from a start() call to the return of the
\* next stop(), thread.invoked once the callback has been invoked since
\* start(), thread.pending from a reset() made while the thread runs to the
\* next entry of initializeEmulation.
ThreadFrame == UNCHANGED emulatorVars

\* start(callback): returns at once when m_running is set
start(callback) ==
    /\ thread.caller = "idle"
    /\ thread' = IF thread.m_running
                 THEN [thread EXCEPT !.between = TRUE]
                 ELSE [thread EXCEPT !.caller = "start_callback",
                                     !.callback = callback,
                                     !.between = TRUE, !.invoked = FALSE]
    /\ ThreadFrame

\* start: m_frameCallback = std::move(callback), under m_callbackMutex
start_callback ==
    /\ thread.caller = "start_callback"
    /\ thread.m_callbackMutex = "free"
    /\ thread' = [thread EXCEPT !.m_frameCallback = thread.callback,
                                !.caller = "start_running"]
    /\ ThreadFrame

\* start: m_running.store(true)
start_running ==
    /\ thread.caller = "start_running"
    /\ thread' = [thread EXCEPT !.m_running = TRUE, !.caller = "start_paused"]
    /\ ThreadFrame

\* start: m_paused.store(false)
start_paused ==
    /\ thread.caller = "start_paused"
    /\ thread' = [thread EXCEPT !.m_paused = FALSE, !.caller = "start_thread"]
    /\ ThreadFrame

\* start: m_thread = std::thread(&EmulationThread::threadMain, this)
start_thread ==
    /\ thread.caller = "start_thread"
    /\ thread' = [thread EXCEPT !.at = "threadMain", !.joinable = TRUE,
                                !.caller = "idle"]
    /\ ThreadFrame

\* stop(): returns at once when m_running is clear
stop ==
    /\ thread.caller = "idle"
    /\ thread' = IF ~thread.m_running
                 THEN [thread EXCEPT !.between = FALSE]
                 ELSE [thread EXCEPT !.caller = "stop_running"]
    /\ ThreadFrame

\* stop: m_running.store(false)
stop_running ==
    /\ thread.caller = "stop_running"
    /\ thread' = [thread EXCEPT !.m_running = FALSE, !.caller = "stop_join"]
    /\ ThreadFrame

\* m_thread.join() returns once threadMain has returned
joinDetached == TRUE
join == thread.at = "off"

\* stop: if (m_thread.joinable()) m_thread.join()
stop_join ==
    /\ thread.caller = "stop_join"
    /\ thread.joinable => join
    /\ thread' = [thread EXCEPT !.joinable = FALSE, !.caller = "stop_callback"]
    /\ ThreadFrame

\* stop: m_frameCallback = nullptr under m_callbackMutex, then the return
stop_callback ==
    /\ thread.caller = "stop_callback"
    /\ thread.m_callbackMutex = "free"
    /\ thread' = [thread EXCEPT !.m_frameCallback = FALSE, !.caller = "idle",
                                !.between = FALSE]
    /\ ThreadFrame

\* pause()
pause ==
    /\ thread.caller = "idle"
    /\ thread' = [thread EXCEPT !.m_paused = TRUE]
    /\ ThreadFrame

\* resume()
resume ==
    /\ thread.caller = "idle"
    /\ thread' = [thread EXCEPT !.m_paused = FALSE]
    /\ ThreadFrame

\* EmulationThread::reset()
EmulationThread_reset ==
    /\ thread.caller = "idle"
    /\ thread' = [thread EXCEPT !.m_resetRequested = TRUE,
                                !.pending = (@ \/ thread.at # "off")]
    /\ ThreadFrame

\* threadMain() begins with initializeEmulation()
threadMain ==
    /\ thread.at = "threadMain"
    /\ thread' = [thread EXCEPT !.at = "initializeEmulation", !.again = FALSE,
                                !.pending = FALSE]
    /\ ThreadFrame

\* initializeEmulation(): the framebuffer is filled, then
\* m_resetRequested.store(false) ends it
initializeEmulation ==
    /\ thread.at = "initializeEmulation"
    /\ thread' = [thread EXCEPT !.m_resetRequested = FALSE,
                                !.at = IF thread.again THEN "m_paused" ELSE "m_running"]
    /\ ThreadFrame

\* while (m_running.load())
whileRunning ==
    /\ thread.at = "m_running"
    /\ thread' = [thread EXCEPT !.at = IF thread.m_running THEN "m_resetRequested"
                                       ELSE "off"]
    /\ ThreadFrame

\* if (m_resetRequested.load()) initializeEmulation();
ifResetRequested ==
    /\ thread.at = "m_resetRequested"
    /\ thread' = IF thread.m_resetRequested
                 THEN [thread EXCEPT !.at = "initializeEmulation", !.again = TRUE,
                                     !.pending = FALSE]
                 ELSE [thread EXCEPT !.at = "m_paused"]
    /\ ThreadFrame

\* if (m_paused.load()) { sleep; continue; }
ifPaused ==
    /\ thread.at = "m_paused"
    /\ thread' = [thread EXCEPT !.at = IF thread.m_paused THEN "m_running"
                                       ELSE "renderFrame"]
    /\ ThreadFrame

\* renderFrame()
renderFrame ==
    /\ thread.at = "renderFrame"
    /\ thread' = [thread EXCEPT !.at = "lock"]
    /\ ThreadFrame

\* std::lock_guard<std::mutex> lock(m_callbackMutex)
lockCallback ==
    /\ thread.at = "lock"
    /\ thread.m_callbackMutex = "free"
    /\ thread' = [thread EXCEPT !.m_callbackMutex = "held", !.at = "m_frameCallback"]
    /\ ThreadFrame

\* if (m_frameCallback) m_frameCallback(...)
frameCallback ==
    /\ thread.at = "m_frameCallback"
    /\ thread' = [thread EXCEPT !.invoked = (@ \/ thread.m_frameCallback),
                                !.at = "unlock"]
    /\ ThreadFrame

\* the lock is released, the frame is throttled and counted, and the loop
\* goes round
throttle ==
    /\ thread.at = "unlock"
    /\ thread' = [thread EXCEPT !.m_callbackMutex = "free", !.at = "m_running"]
    /\ ThreadFrame

\* the steps of the emulation thread
EmulationStep ==
    \/ threadMain
    \/ initializeEmulation
    \/ whileRunning
    \/ ifResetRequested
    \/ ifPaused
    \/ renderFrame
    \/ lockCallback
    \/ frameCallback
    \/ throttle

\* the steps of the calling thread
CallerStep ==
    \/ \E callback \in BOOLEAN : start(callback)
    \/ start_callback
    \/ start_running
    \/ start_paused
    \/ start_thread
    \/ stop
    \/ stop_running
    \/ stop_join
    \/ stop_callback
    \/ pause
    \/ resume
    \/ EmulationThread_reset

ThreadNext == CallerStep \/ EmulationStep

ThreadSpec == Init /\ [][ThreadNext]_vars

\* a call that has begun runs on to its return
CallReturn ==
    \/ start_callback
    \/ start_running
    \/ start_paused
    \/ start_thread
    \/ stop_running
    \/ stop_join
    \/ stop_callback

\* the operating system keeps scheduling both threads; the caller need not
\* make another call
ThreadFairSpec == ThreadSpec /\ WF_vars(EmulationStep) /\ WF_vars(CallReturn)

\* ============================================================== properties
Abs(x) == IF x < 0 THEN -x ELSE x
Bursts == {i \in DOMAIN events : events[i][1] = "burst"}
InLoop == pc = "loop" /\ NanosThisLine >= Tick
Returned == pc = "idle" /\ lastOp[1] = "CPUCycle" /\ lastOp[3] = 0

WellConfigured ==
    /\ SndEnable = 1 => SoundInterupt > 0
    /\ IntEnable = 1 => MasterTickCounter > 0

\* C2  Drift bound: after every burst of every branch, 0 <= CycleDrift < 1
\* (stated for configurations in which every enabled event has a non-zero
\* period).
C2_DriftBound ==
    WellConfigured
        => \A i \in Bursts : 0 <= events[i][4] /\ events[i][4] < CycleUnit

\* C3  Termination: no loop iteration of CPUCycle is a fixed point of the
\* scheduler state (an iteration that changes nothing repeats for ever).
C3_NoSpin ==
    InLoop => ENABLED <<Case0 \/ Case1 \/ Case2 \/ Case3AudioFirst
                        \/ Case3InterruptFirst \/ Case3Same>>_clockVars

\* C4  Chronological order: no burst runs past the due time of an enabled
\* event: a step never drives the countdown of an enabled event from a
\* non-negative value to below zero (stated for configurations in which
\* every enabled event has a non-zero period).
C4_NoOverrun ==
    [][ WellConfigured =>
          /\ (IntEnable = 1 /\ NanosToInterrupt >= 0 => NanosToInterrupt' >= 0)
          /\ (SndEnable = 1 /\ NanosToSoundSample >= 0 => NanosToSoundSample' >= 0)
      ]_vars

\* C5  Tie-break: an iteration that starts with both events due and equal
\* countdowns runs one burst of that length, then fires the timer interrupt,
\* then the audio event, with no burst in between, and reloads both
\* countdowns to their periods.
C5_TieBreak ==
    [][ (InLoop /\ StateSwitch = 3 /\ NanosToInterrupt = NanosToSoundSample)
          => /\ Len(events') = 3
             /\ events'[1][1] = "burst" /\ events'[1][2] = NanosToInterrupt
             /\ events'[2] = TimerEvent
             /\ events'[3] = AudioEvent
             /\ NanosThisLine' = NanosThisLine - NanosToInterrupt
             /\ NanosToInterrupt' = MasterTickCounter
             /\ NanosToSoundSample' = SoundInterupt
      ]_vars
C5_Witness ==
    /\ Len(events) = 3 /\ events[2] = TimerEvent /\ events[3] = AudioEvent
    /\ events[1][2] > 0 /\ events[1][3] >= 1
    /\ WellConfigured
    /\ NanosToInterrupt = MasterTickCounter /\ NanosToSoundSample = SoundInterupt

\* C6  Event periodicity: with interrupts enabled, audio disabled and the
\* countdown loaded with the period P, every firing comes exactly P ticks of
\* burst after the load or firing before it, and once the budgets entered
\* total N*P and the call has returned the timer has fired exactly N times.
C6_Periodicity ==
    meter.clean
        => /\ meter.gap # -1 => meter.gap = MasterTickCounter
           /\ (pc = "idle" /\ meter.budget % MasterTickCounter = 0)
                 => meter.fires = meter.budget \div MasterTickCounter
C6_Witness ==
    /\ meter.clean /\ pc = "idle" /\ nCalls >= 2
    /\ meter.fires >= 2 /\ meter.budget = meter.fires * MasterTickCounter

\* C7  Halted CPU: a CPUCycle call made while IsHalted() is true changes
\* neither CycleDrift nor the line budget nor the countdowns, hands nothing
\* to the executor and fires no event.
C7_HaltedNoOp ==
    [][ (nCalls' = nCalls + 1 /\ lastOp'[3] = 1)
          => /\ UNCHANGED clockVars
             /\ events' = <<>>
             /\ meter' = meter
             /\ pc' = "idle"
      ]_vars
C7_Witness ==
    /\ lastOp[1] = "CPUCycle" /\ lastOp[3] = 1 /\ pc = "idle"
    /\ IntEnable = 1 /\ 0 < NanosToInterrupt /\ NanosToInterrupt <= lastOp[2]
    /\ CycleDrift > 0

\* C8  Timer period: once programmed, the period is (r + 1) * modePeriod for
\* the 12-bit register value r, the low 12 bits of the argument, and is
\* never zero; r = 0 at line rate gives exactly NanosPerLine.
ModePeriod == IF TimerClockRate = 0 THEN NanosPerLine ELSE NANOSECOND \div COLORBURST
TimerProgrammed == lastOp[1] \in {"SetInteruptTimer", "SetTimerClockRate"}
C8_TimerPeriod ==
    TimerProgrammed
        => /\ UnxlatedTickCounter \in 0..4095
           /\ lastOp[1] = "SetInteruptTimer" => UnxlatedTickCounter = lastOp[2] % 4096
           /\ MasterTickCounter = (UnxlatedTickCounter + 1) * ModePeriod
           /\ MasterTickCounter > 0
           /\ (UnxlatedTickCounter = 0 /\ TimerClockRate = 0)
                 => MasterTickCounter = NanosPerLine
C8_Witness ==
    /\ lastOp[1] = "SetInteruptTimer" /\ lastOp[2] > 4095
    /\ TimerClockRate = 1 /\ UnxlatedTickCounter = 5

\* C9  Timer reprogramming: SetInteruptTimer and SetTimerClockRate reload the
\* countdown with the new period exactly when it differs from the latched
\* period, and leave the running countdown alone when it is the same.
C9_Reprogramming ==
    [][ (nConfig' = nConfig + 1
         /\ lastOp'[1] \in {"SetInteruptTimer", "SetTimerClockRate"})
          => IF MasterTickCounter' # OldMaster
             THEN NanosToInterrupt' = MasterTickCounter'
             ELSE NanosToInterrupt' = NanosToInterrupt
      ]_vars
C9_Witness ==
    /\ TimerProgrammed /\ nCalls >= 1
    /\ 0 < NanosToInterrupt /\ NanosToInterrupt < MasterTickCounter

\* C10  Programming the timer arms it: SetInteruptTimer sets IntEnable, and
\* only MiscReset clears it.
C10_Armed ==
    [][ /\ (nConfig' = nConfig + 1 /\ lastOp'[1] = "SetInteruptTimer")
              => IntEnable' = 1
        /\ (IntEnable = 1 /\ IntEnable' = 0)
              => (nConfig' = nConfig + 1 /\ lastOp'[1] = "MiscReset")
      ]_vars
C10_Witness ==
    /\ IntEnable = 1 /\ meter.fires >= 1 /\ nCalls >= 2
    /\ lastOp[1] = "CPUCycle" /\ pc = "idle"
\* C11  Zero sample rate disables audio: from a SetAudioRate(0) call until
\* the next SetAudioRate with a non-zero rate, no loop iteration of any
\* CPUCycle call fires the audio event, however far below the line budget
\* the stale audio countdown has run.
C11_ZeroRateDisables ==
    (meter.muted /\ pc = "loop")
        => \A i \in DOMAIN events : events[i] # AudioEvent
C11_Witness ==
    /\ meter.muted /\ Returned /\ nCalls >= 2
    /\ NanosToSoundSample < 0 /\ meter.fires >= 1

\* C16  Non-negative budget: at every point of every CPUCycle call, after
\* any sequence of earlier CPUCycle and configuration calls, NanosThisLine
\* is >= 0.
C16_NonNegativeBudget == NanosThisLine >= 0
C16_Witness ==
    /\ pc = "loop" /\ nCalls >= 2 /\ nConfig >= 2
    /\ Len(events) = 4 /\ NanosThisLine >= 0 /\ NanosThisLine < Tick
    /\ NanosToSoundSample < 0

\* a returned call of the half-line scenario: overclock 1, audio disabled,
\* interrupts enabled, timer period half a line, countdown equal to the
\* period when the call was entered, budget one full line
HalfLineCall ==
    /\ Returned /\ meter.fresh
    /\ OverClock = 1 /\ 2 * MasterTickCounter = NanosPerLine
    /\ lastOp[2] = NanosPerLine

\* C18 as first stated: in the half-line scenario each CPUCycle call with a
\* budget of one full line fires the timer interrupt exactly once, after
\* exactly half of the call has been run.
C18_HalfLineOnce ==
    HalfLineCall => (meter.callFires = 1 /\ 2 * meter.firstAt = lastOp[2])

\* C18  Half-line scenario, amended: each such call fires the timer
\* interrupt exactly twice, the first time after exactly half of the call
\* has been run and the second time at its end, leaving the countdown
\* freshly loaded for the next call.
C18_HalfLineTwice ==
    HalfLineCall
        => /\ meter.callFires = 2
           /\ 2 * meter.firstAt = lastOp[2]
           /\ meter.callSince = lastOp[2]
           /\ events[Len(events)] = TimerEvent
           /\ NanosToInterrupt = MasterTickCounter
C18_Witness ==
    /\ HalfLineCall /\ nCalls >= 2 /\ meter.budget = 2 * NanosPerLine
    /\ meter.fires = 4

C25_CountdownValid ==
    (pc = "idle" /\ IntEnable = 1)
        => (NanosToInterrupt > 0 /\ NanosToInterrupt <= MasterTickCounter)

\* the burst recorded as ev, run from the drift `drift': the executor is
\* called (ev[3] > 0) only with the whole part of a count of at least one
\* cycle, and a count below one cycle is stored as the drift without a call
WholeCycles(drift, ev) ==
    LET computed == drift + ev[2] * CyclesPerLine * OverClock
    IN  /\ ev[3] >= 0
        /\ ev[3] > 0 => (computed >= CycleUnit /\ ev[3] = computed \div CycleUnit)
        /\ computed < CycleUnit => (ev[3] = 0 /\ ev[4] = computed)

\* C29  No sub-cycle executor calls: in every loop iteration of CPUCycle the
\* executor is called only with a whole cycle count >= 1; a burst whose
\* computed count (drift plus elapsed cycles) is below 1 makes no call and
\* stores the computed value as the new drift.
C29_WholeCycles ==
    [][ (pc = "loop" /\ pc' = "loop" /\ events' # <<>>)
          => /\ WholeCycles(CycleDrift, events'[1])
             /\ \A i \in DOMAIN events' :
                   (i > 1 /\ events'[i][1] = "burst")
                       => WholeCycles(events'[1][4], events'[i])
             /\ \E i \in DOMAIN events' :
                   /\ events'[i][1] = "burst" /\ CycleDrift' = events'[i][4]
                   /\ \A j \in DOMAIN events' : events'[j][1] = "burst" => j <= i
      ]_vars
C29_Witness ==
    /\ pc = "loop" /\ Len(events) = 4
    /\ events[1][3] >= 1
    /\ events[3][1] = "burst" /\ events[3][2] > 0 /\ events[3][3] = 0
    /\ events[3][4] > 0 /\ CycleDrift = events[3][4]

FieldLines ==
    4 + 3 + TopOffScreen + TopBoarder + LinesperScreen + BottomBoarder + BottomOffScreen
\* a RenderFrame call has returned and the geometry is still the one it ran in
FrameReturned == frame.done /\ rf.phase = "idle" /\ frame.mode = video.Lines

\* C13  Constant field length: in every display mode a RenderFrame call runs
\* LINESPERSCREEN lines and hands the scheduler budgets that sum to
\* LINESPERSCREEN * NanosPerLine.
C13_ConstantField ==
    (FrameReturned /\ frame.mode # -1)
        => /\ frame.lines = LINESPERSCREEN
           /\ frame.budget = LINESPERSCREEN * NanosPerLine

\* C14  Surface-lock failure: a RenderFrame call in which LockScreen failed
\* draws nothing and still runs every line of the frame through the
\* scheduler, so that it consumes the emulated time of a whole frame.
C14_LockFailureKeepsTime ==
    (FrameReturned /\ frame.lock = 1)
        => /\ frame.drawn = 0
           /\ frame.lines = FieldLines
           /\ frame.budget = FieldLines * NanosPerLine

\* C28  Frame prologue: RenderFrame drives VSYNC low, runs exactly 4 lines,
\* drives VSYNC high, runs exactly 3 lines, then the TopOffScreen off-screen
\* lines, and only then locks the surface; no line is drawn before the lock.
C28_Prologue ==
    [][ /\ frame'.n # frame.n
              => (frame'.trace = <<"VSYNC0">> /\ frame'.lines = 0 /\ frame'.drawn = 0)
        /\ (rf.phase = "vsyncLow" /\ rf'.phase # "vsyncLow")
              => /\ frame.lines = 4 /\ rf'.phase = "vsyncHigh"
                 /\ frame'.trace = <<"VSYNC0", "VSYNC1">>
        /\ (rf.phase = "vsyncHigh" /\ rf'.phase # "vsyncHigh")
              => (frame.lines = 4 + 3 /\ rf'.phase = "topOff")
        /\ (rf.phase = "topOff" /\ rf'.phase # "topOff")
              => /\ frame.lines = 4 + 3 + TopOffScreen
                 /\ frame.trace = <<"VSYNC0", "VSYNC1">>
                 /\ frame.drawn = 0 /\ frame.lock = -1
                 /\ frame'.lock \in {0, 1}
        /\ frame'.drawn > 0 => frame'.lock = 0
      ]_vars
C28_Witness ==
    /\ rf.phase = "topBorder" /\ rf.LineCounter = 1
    /\ frame.trace = <<"VSYNC0", "VSYNC1", "Lock">>
    /\ TopOffScreen > 0 /\ frame.lines = 4 + 3 + TopOffScreen + 1
    /\ frame.drawn = 1

\* C30  Audio buffer bookkeeping: when a RenderFrame call returns, on
\* whichever path, AudioBuffer has been handed to FlushAudioBuffer and
\* AudioIndex is 0.
C30_AudioFlushed ==
    [][ (frame'.done /\ ~frame.done) => (frame'.audio >= 0 /\ AudioIndex' = 0) ]_vars

\* -------------------------------------------------- properties of TapeSpec
\* C15  Route switching flushes cassette output: once SetSndOutMode has
\* switched the route away from Cassette Out, no byte stored by CassOut is
\* left that was not handed to FlushCassetteBuffer.
C15_RouteSwitchFlushes == LastMode # 1 => tape.pending = 0

\* a CassIn sample has been produced on the Cassette In route
CassInSampled == AudioEventFn = "CassIn" /\ tape.casSample # -1

\* C17  Cassette In with the motor stopped (as GetMotorState reported it to
\* the frame): the tape sample of every audio event is the silence value
\* 0x80, and the output is, per channel, the mix of that silence (0x80 << 7)
\* with the DAC value at the ramp position fade of that sample.
C17_SilenceWhenStopped ==
    (CassInSampled /\ tape.latched = 0)
        => /\ tape.casSample = 128
           /\ tape.out[1] = (16384 * fade + tape.dac[1] * ((SoundRate \div 8) - fade))
                                \div (SoundRate \div 8)
           /\ tape.out[2] = (16384 * fade + tape.dac[2] * ((SoundRate \div 8) - fade))
                                \div (SoundRate \div 8)
C17_Witness ==
    /\ CassInSampled /\ tape.latched = 0 /\ tape.casSample = 128
    /\ fade >= 2 /\ tape.mux = 0
    /\ tape.out[1] # tape.dac[1] /\ tape.out[1] # 16384
    /\ frame.n >= 1 /\ tape.writes = 1

\* --------------------------------------------------- properties of EmuSpec
\* the step is the call `name' of the CocoEmulator interface
Called(name) == emu'.calls = emu.calls + 1 /\ emu'.last[1] = name

\* C19  Readiness: isReady() becomes true by an init() that succeeds,
\* becomes false by shutdown(), and is changed by nothing else (runFrame and
\* its steps, reset, the input calls, the cartridge calls, a failed init);
\* an init() on a ready emulator returns true and changes nothing.
C19_Readiness ==
    [][ /\ (Called("init") /\ emu'.result) => m_ready'
        /\ Called("shutdown") => ~m_ready'
        /\ ~(Called("init") /\ emu'.result) /\ ~Called("shutdown")
               => m_ready' = m_ready
        /\ (Called("init") /\ m_ready)
               => /\ emu'.result
                  /\ UNCHANGED <<schedVars, geomVars, frameVars, mixerVars,
                                 NanosToAudioSample, m_config, m_ready, m_lastError,
                                 cartVars, thread>>
      ]_vars
C19_Witness ==
    /\ m_ready /\ emu.last[1] = "init" /\ emu.reinit /\ emu.result
    /\ frame.done /\ frame.lines = 7 /\ emu.calls >= 3

C22_BankSwitching ==
    [][ /\ (/\ Len(m_rom) > BankBytes /\ m_rom' = m_rom
            /\ m_bankSelect' # m_bankSelect
            /\ (m_bankSelect' + 1) * BankBytes <= Len(m_rom))
               => \E a \in CartAddresses : read(a)' # read(a)
        /\ emu'.last[1] = "CartridgeManager::reset" => m_bankSelect' = 0
      ]_vars

\* ----------------------------------------------- properties of ProcessSpec
\* C21  An emulator that has just been created and initialised (init() is
\* the only call made on it) reports hasCartridge() = false, whatever
\* earlier emulators of the process did.
C21_FreshHasNoCartridge ==
    (m_ready /\ emu.last[1] = "init" /\ emu.calls = emu.born + 1) => ~hasCartridge

\* -------------------------------------------------- properties of GimeSpec
\* a RenderFrame call made with IsHalted() true has returned through the
\* flush, the speaker handler installed and a non-zero sample period set
HaltedFrameReturned ==
    /\ frame.done /\ frame.flushed /\ frame.halted = 1
    /\ rf.phase = "idle" /\ lastOp[1] = "CPUCycle"
    /\ SndEnable = 1 /\ SoundInterupt > 0 /\ AudioEventFn = "AudioOut"

C26_TimerMaskable ==
    (pc = "loop" /\ \E i \in DOMAIN events : events[i] = TimerEvent)
        => TimerInteruptEnabled # 0

\* C27  Sync interrupts: a RenderFrame call asserts the vertical interrupt
\* once, on entry (VSYNC low), if VertInteruptEnabled is set and never
\* otherwise; every line asserts the horizontal interrupt once, between its
\* two CPUCycle calls (HSYNC low), if HorzInteruptEnabled is set and never
\* otherwise.
C27_SyncInterrupts ==
    [][ /\ frame'.n # frame.n
              => frame'.vert = (IF VertInteruptEnabled # 0 THEN 1 ELSE 0)
        /\ frame'.n = frame.n => frame'.vert = frame.vert
        /\ frame'.lines = frame.lines + 1
              => rf'.horz = (IF HorzInteruptEnabled # 0 THEN 1 ELSE 0)
        /\ rf'.horz > rf.horz
              => (pc = "idle" /\ rf.hline = "first" /\ rf'.hline = "second")
      ]_vars
C27_Witness ==
    /\ frame.done /\ frame.flushed /\ frame.lines = FieldLines
    /\ VertInteruptEnabled = 1 /\ frame.vert = 1
    /\ HorzInteruptEnabled = 1 /\ rf.horz = 1
    /\ lastOp[1] = "CPUCycle"


\* ================================================ properties of LostSurfaceSpec
\* sizeof(AudioBuffer)/sizeof(*AudioBuffer)
AudioBufferCapacity == 16384

\* C31  Audio buffer bound: AudioIndex, the number of samples written to
\* AudioBuffer since it was last emptied, never exceeds the capacity of the
\* buffer: every write by AudioOut, CassIn and UpdateAudio lands at an index
\* below 16384.
C31_AudioBufferBound == AudioIndex <= AudioBufferCapacity

\* C32  Blink toggling: TogBlinkState() is called once every
\* RENDERS_PER_BLINK_TOGGLE RenderFrame calls, counted from the first: after
\* n calls it has been called n / 16 times (rounded down).
C32_BlinkEvery16 == video.blinks = frame.n \div RENDERS_PER_BLINK_TOGGLE

\* ======================================================= properties of PumpSpec
\* C33  Frame skip: with a frame skip k > 1, of any k consecutive RenderFrame
\* calls exactly one goes to LockScreen: after n calls at most n / k
\* (rounded up) of them have locked the surface.
C33_FrameSkip ==
    frame.FrameSkip > 1
        => frame.locks * frame.FrameSkip <= frame.n + frame.FrameSkip - 1

\* a step in which UpdateAudio appends to AudioBuffer
Padded == rf.hline = "start" /\ rf'.hline = "first" /\ AudioIndex' # AudioIndex

\* C34  Underrun padding: UpdateAudio pads only while the sink reports more
\* than one free block, only by one copy of the sample written last, and at
\* most once per 64 samples written: the handlers have written at least 63
\* samples since the padding before.
C34_PaddingOncePer64 ==
    [][ Padded => /\ GetFreeBlockCount > 1
                  /\ AudioIndex' = AudioIndex + 1
                  /\ padding'.value = padding.last
                  /\ (padding.value # <<>> => padding.since >= 63) ]_vars
\* C34 as the code has it: the padding goes to the second entry of a block of
\* 64 entries of AudioBuffer, so within one filling of the buffer two paddings
\* are at least 63 written samples apart; the first sample written after the
\* buffer was emptied is padded however recent the padding before.
C34_PaddingOncePerBlock ==
    [][ Padded => /\ GetFreeBlockCount > 1
                  /\ AudioIndex' = AudioIndex + 1
                  /\ padding'.value = padding.last
                  /\ AudioIndex % 64 = 1
                  /\ (AudioIndex = 1 \/ padding.since >= 63) ]_vars
C34_Witness ==
    /\ AudioIndex = 66 /\ padding.since = 0 /\ padding.value \in DacSamples
    /\ rf.hline = "first"

\* ======================================================== properties of MixSpec
\* a loop iteration of CPUCycle that fires the audio-sample event
AudioFired ==
    pc = "loop" /\ pc' = "loop" /\ \E i \in DOMAIN events' : events'[i] = AudioEvent

C36_RampBound ==
    [][ (AudioFired /\ AudioEventFn = "CassIn")
            => (SoundRate \div 8 > 0 /\ 0 <= fade' /\ fade' <= SoundRate \div 8) ]_vars

\* C37  Route round trip (checked in RouteSpec): when SetSndOutMode switches
\* back to the speaker from a cassette route whose rate is still the tape
\* rate the switch away set, the sample rate, the sample period and the
\* audio enable are again what they were when the route left the speaker.
C37_RouteRoundTrip ==
    [][ (LastMode # 0 /\ LastMode' = 0 /\ SoundRate = TapeRate)
            => <<SoundRate', SoundInterupt', SndEnable'>> = tape.speaker ]_vars

\* ===================================================== properties of ThreadSpec
\* the callback is being invoked by this step
Invoking == thread.at = "m_frameCallback" /\ thread.m_frameCallback /\ thread' # thread

\* C38  EmulationThread stop (ThreadSpec): outside the span from a start()
\* call to the return of the next stop() the emulation thread has finished
\* (or was never started), and every invocation of the frame-ready callback
\* falls inside such a span.
C38_StopFinishesThread ==
    [][ /\ ~thread'.between => thread'.at = "off"
        /\ Invoking => (thread.between /\ thread'.between) ]_vars

\* stop() has returned after frames were delivered to the callback
C38_Witness ==
    /\ thread.caller = "idle" /\ ~thread.between /\ thread.invoked
    /\ thread.at = "off" /\ ~thread.m_frameCallback /\ ~thread.joinable

\* C39  Reset requests are not lost (ThreadFairSpec): a reset() made while the
\* emulation thread runs is followed by an entry of initializeEmulation,
\* unless the thread is stopped first.
C39_ResetNotLost ==
    thread.pending ~> (~thread.pending \/ thread.at = "off")

====
